---------------------------- MODULE Spec2Model ----------------------------
(***************************************************************************)
(* A model of the WordPress theme detection service                        *)
(* (src/src/services/wpThemeDetector.ts): the URL normalisation, the       *)
(* result cache, the fetch orchestrator, the detection cascade, the path   *)
(* scanner and the detectTheme entry point with its retry loop.            *)
(*                                                                         *)
(* JavaScript strings are modelled as sequences of one-character strings,  *)
(* so that startsWith, includes, split, replace and the regular            *)
(* expressions are computed character by character.  Error messages and    *)
(* method labels, which the code only compares and concatenates, are TLA+  *)
(* strings.                                                                *)
(***************************************************************************)
EXTENDS Integers, Sequences, FiniteSets, TLC

VARIABLES
    cache,      \* detectionCache: the Map's entries, in insertion order
    heap,       \* the DetectionResult objects, by reference
    now,        \* Date.now(), in milliseconds
    calls,      \* the detectTheme invocations, each with its position
    probe       \* the input and output of a function applied on its own

vars == <<cache, heap, now, calls, probe>>

----------------------------------------------------------------------------
(* Bounds of the model *)

\* The number of detectTheme invocations of one behaviour.
MaxCalls == 2
\* The longest free part of an input URL of the normalisation experiments.
MaxUrlLen == 3
\* The number of lookups and writes of one behaviour of the cache on its own.
MaxOps == 4

----------------------------------------------------------------------------
(* Program constants *)

CACHE_DURATION == 5 * 60 * 1000
TIMEOUT_DURATION == 10000
MAX_RETRIES == 2
\* detectionCache.size > 100
CACHE_CEILING == 100
\* content.length > 100
MIN_CONTENT_LENGTH == 100
\* setTimeout(resolve, 1000 * retryCount)
BACKOFF_UNIT == 1000
\* themeNames.size < 5
THEME_SCAN_LIMIT == 5
\* plugins.size < 15
PLUGIN_SCAN_LIMIT == 15
\* .slice(0, 10)
PLUGIN_LIST_LIMIT == 10

----------------------------------------------------------------------------
(* Strings *)

\* s.startsWith(p, i - 1): p occurs in s at the 1-based position i.
StartsWithAt(s, p, i) ==
    /\ i >= 1
    /\ i + Len(p) - 1 <= Len(s)
    /\ \A k \in 1..Len(p) : s[i + k - 1] = p[k]

StartsWith(s, p) == StartsWithAt(s, p, 1)

\* s.includes(p)
Includes(s, p) == \E i \in 1..(Len(s) - Len(p) + 1) : StartsWithAt(s, p, i)

\* s.indexOf(c) for a single character, 1-based; 0 when c does not occur.
IndexOfChar(s, c) ==
    IF \E i \in 1..Len(s) : s[i] = c
    THEN CHOOSE i \in 1..Len(s) : s[i] = c /\ \A j \in 1..(i - 1) : s[j] # c
    ELSE 0

\* s.split(c)[0]: the part of s before the first c, all of s when there is none.
SplitFirst(s, c) ==
    LET i == IndexOfChar(s, c) IN IF i = 0 THEN s ELSE SubSeq(s, 1, i - 1)

\* s.replace(/\/$/, ''): one slash at the very end of s is removed.
StripTrailingSlash(s) ==
    IF Len(s) > 0 /\ s[Len(s)] = "/" THEN SubSeq(s, 1, Len(s) - 1) ELSE s

HTTP == <<"h", "t", "t", "p", ":", "/", "/">>
HTTPS == <<"h", "t", "t", "p", "s", ":", "/", "/">>

----------------------------------------------------------------------------
(* normalizeUrl and getCacheKey *)

\* A normalisation that adds no scheme.
NormalizeWithoutScheme(url) ==
    SplitFirst(SplitFirst(StripTrailingSlash(url), "#"), "?")

\* normalizeUrl: the scheme is added when missing; one trailing slash is
\* removed; then the text from the first # and from the first ? is dropped.
normalizeUrl(url) ==
    LET u == IF ~StartsWith(url, HTTP) /\ ~StartsWith(url, HTTPS)
             THEN HTTPS \o url ELSE url
    IN  SplitFirst(SplitFirst(StripTrailingSlash(u), "#"), "?")

getCacheKey(url) == normalizeUrl(url)

----------------------------------------------------------------------------
(* The result cache: a Map from key to {result, timestamp}.  A Map keeps   *)
(* its entries in insertion order, and setting a key it already holds      *)
(* keeps the key's position.                                               *)

MapHas(m, k) == \E i \in 1..Len(m) : m[i].key = k

MapIndex(m, k) == CHOOSE i \in 1..Len(m) : m[i].key = k

\* Map.prototype.set
MapSet(m, k, ref, ts) ==
    LET e == [key |-> k, ref |-> ref, timestamp |-> ts]
    IN  IF MapHas(m, k)
        THEN [m EXCEPT ![MapIndex(m, k)] = e]
        ELSE Append(m, e)

\* Map.prototype.delete
MapDelete(m, k) ==
    IF MapHas(m, k)
    THEN LET i == MapIndex(m, k) IN SubSeq(m, 1, i - 1) \o SubSeq(m, i + 1, Len(m))
    ELSE m

\* A lookup that never lets an entry expire.
getFromCacheForever(c, url, t) ==
    LET cacheKey == getCacheKey(url)
    IN  IF MapHas(c, cacheKey)
        THEN [hit |-> TRUE, ref |-> c[MapIndex(c, cacheKey)].ref, cache |-> c]
        ELSE [hit |-> FALSE, ref |-> 0, cache |-> c]

\* A lookup whose hit gives the entry the time of the lookup.
getFromCacheRefreshes(c, url, t) ==
    LET cacheKey == getCacheKey(url)
        cached == MapHas(c, cacheKey)
        e == c[MapIndex(c, cacheKey)]
    IN  IF cached /\ t - e.timestamp < CACHE_DURATION
        THEN [hit |-> TRUE, ref |-> e.ref,
              cache |-> [c EXCEPT ![MapIndex(c, cacheKey)].timestamp = t]]
        ELSE [hit |-> FALSE, ref |-> 0,
              cache |-> IF cached THEN MapDelete(c, cacheKey) ELSE c]

\* getFromCache: the reference of the cached result (hit) or null (~hit),
\* and the cache it leaves, an expired entry of the key being deleted.
getFromCache(c, url, t) ==
    LET cacheKey == getCacheKey(url)
        cached == MapHas(c, cacheKey)
        e == c[MapIndex(c, cacheKey)]
    IN  IF cached /\ t - e.timestamp < CACHE_DURATION
        THEN [hit |-> TRUE, ref |-> e.ref, cache |-> c]
        ELSE [hit |-> FALSE, ref |-> 0,
              cache |-> IF cached THEN MapDelete(c, cacheKey) ELSE c]

\* A write that never evicts.
setCacheNoEviction(c, url, ref, t) == MapSet(c, getCacheKey(url), ref, t)

\* A write that evicts as soon as the Map holds as many entries as the
\* ceiling.
setCacheEvictsAtCeiling(c, url, ref, t) ==
    LET cacheKey == getCacheKey(url)
        written == MapSet(c, cacheKey, ref, t)
    IN  IF Len(written) >= CACHE_CEILING
        THEN MapDelete(written, written[1].key)
        ELSE written

\* A write that leaves the entry of a key that the Map already holds.
setCacheKeepsFirst(c, url, ref, t) ==
    IF MapHas(c, getCacheKey(url)) THEN c
    ELSE MapSet(c, getCacheKey(url), ref, t)

\* A write that evicts the last key of the Map.
setCacheEvictsNewest(c, url, ref, t) ==
    LET cacheKey == getCacheKey(url)
        written == MapSet(c, cacheKey, ref, t)
    IN  IF Len(written) > CACHE_CEILING
        THEN MapDelete(written, written[Len(written)].key)
        ELSE written

\* setCache: the entry is written, then the first key of the Map is deleted
\* when the Map holds more than the ceiling.
setCache(c, url, ref, t) ==
    LET cacheKey == getCacheKey(url)
        written == MapSet(c, cacheKey, ref, t)
    IN  IF Len(written) > CACHE_CEILING
        THEN MapDelete(written, written[1].key)
        ELSE written

----------------------------------------------------------------------------
(* The fetch orchestrator.                                                 *)
(*                                                                         *)
(* The network's answer to one request is an outcome:                      *)
(*   neterr   fetch rejects (no connection, CORS)                          *)
(*   timeout  the abort timer fires before the response arrives            *)
(*   status   a response whose status is not a success status              *)
(*   bodyerr  a success status, and reading the body rejects               *)
(*   hang     a success status, and the body never completes               *)
(*   ok       a success status and a body: its text, and what              *)
(*            response.json() makes of it                                  *)
(* JavaScript values are tagged records: a string carries its characters,  *)
(* an object that is no string carries its length property.                *)

JsString(s) == [type |-> "string", chars |-> s]
JsObject(n) == [type |-> "object", length |-> n]
JsUndefined == [type |-> "undefined"]

\* Boolean(v)
Truthy(v) ==
    CASE v.type = "string" -> Len(v.chars) > 0
      [] v.type = "object" -> TRUE
      [] OTHER -> FALSE

\* v.length > n, which is false when v has no length.
LengthOver(v, n) ==
    CASE v.type = "string" -> Len(v.chars) > n
      [] v.type = "object" -> v.length > n
      [] OTHER -> FALSE

\* The messages of the errors the runtime raises.
FETCH_FAILED == "Failed to fetch"
ABORTED == "The user aborted a request."
BODY_FAILED == "network error"
JSON_FAILED == "Unexpected token < in JSON at position 0"
NOT_A_FUNCTION == "htmlContent.includes is not a function"

NetErr == [kind |-> "neterr"]
Timeout == [kind |-> "timeout"]
BadStatus == [kind |-> "status"]
BodyErr == [kind |-> "bodyerr"]
Hang == [kind |-> "hang"]
\* A body that is no JSON: response.json() rejects.
OkText(s) == [kind |-> "ok", text |-> s, json |-> [ok |-> FALSE]]
\* A JSON envelope {"contents": v}; v = JsUndefined is an envelope without
\* the field.  The text of the envelope is not mapped: no caller of a
\* "wrapped" relay reads it.
OkEnvelope(text, v) ==
    [kind |-> "ok", text |-> text, json |-> [ok |-> TRUE, isNull |-> FALSE, contents |-> v]]
\* The JSON text null.
OkJsonNull ==
    [kind |-> "ok", text |-> <<"n", "u", "l", "l">>, json |-> [ok |-> TRUE, isNull |-> TRUE, contents |-> JsUndefined]]

\* The message of the error an outcome raises in the awaiting code.
ErrorMessage(o) ==
    CASE o.kind = "neterr" -> FETCH_FAILED
      [] o.kind = "timeout" -> ABORTED
      [] o.kind = "bodyerr" -> BODY_FAILED
      [] OTHER -> JSON_FAILED

\* let lastError: Error | null = null
NoError == [set |-> FALSE, message |-> ""]
Caught(msg) == [set |-> TRUE, message |-> msg]

\* The relay list of fetchWithCors, in order.
proxies == <<
    [host |-> "corsproxy.io", parser |-> "direct", timeout |-> 15000],
    [host |-> "api.allorigins.win", parser |-> "json", timeout |-> 12000],
    [host |-> "thingproxy.freeboard.io", parser |-> "json", timeout |-> 12000],
    [host |-> "cors.bridged.cc", parser |-> "direct", timeout |-> 15000],
    [host |-> "cors.eu.org", parser |-> "direct", timeout |-> 15000] >>

ALL_FAILED ==
    "Unable to access this website. All CORS proxy methods failed. This is a common limitation when analyzing external websites from your browser. Error: "

\* The error thrown after the loop: lastError?.message || 'Unknown error'.
AggregatedError(lastError) ==
    ALL_FAILED \o (IF lastError.set /\ lastError.message # ""
                   THEN lastError.message ELSE "Unknown error")

\* A relay attempt that takes whatever content a success status brings.
ProxyAttemptAnyLength(proxy, o, lastError) ==
    CASE o.kind \in {"neterr", "timeout", "bodyerr"} ->
            [kind |-> "next", lastError |-> Caught(ErrorMessage(o))]
      [] o.kind = "status" -> [kind |-> "next", lastError |-> lastError]
      [] o.kind = "hang" -> [kind |-> "hang"]
      [] OTHER ->
            IF proxy.parser = "direct"
            THEN [kind |-> "return", value |-> JsString(o.text)]
            ELSE IF ~o.json.ok
                 THEN [kind |-> "next", lastError |-> Caught(JSON_FAILED)]
                 ELSE [kind |-> "return", value |-> o.json.contents]

\* A relay attempt that accepts a content of the minimal length.
ProxyAttemptAtLimit(proxy, o, lastError) ==
    CASE o.kind \in {"neterr", "timeout", "bodyerr"} ->
            [kind |-> "next", lastError |-> Caught(ErrorMessage(o))]
      [] o.kind = "status" -> [kind |-> "next", lastError |-> lastError]
      [] o.kind = "hang" -> [kind |-> "hang"]
      [] OTHER ->
            LET content == IF proxy.parser = "direct" THEN JsString(o.text)
                           ELSE IF o.json.ok /\ ~o.json.isNull THEN o.json.contents
                           ELSE JsUndefined
            IN  IF proxy.parser # "direct" /\ ~o.json.ok
                THEN [kind |-> "next", lastError |-> Caught(JSON_FAILED)]
                ELSE IF Truthy(content) /\ LengthOver(content, MIN_CONTENT_LENGTH - 1)
                     THEN [kind |-> "return", value |-> content]
                     ELSE [kind |-> "next", lastError |-> lastError]

\* What one relay attempt does with the outcome o of its request:
\* "return" the content, "hang", or go on to the next relay ("next") with
\* the last error it leaves.
ProxyAttempt(proxy, o, lastError) ==
    CASE o.kind \in {"neterr", "timeout", "bodyerr"} ->
            [kind |-> "next", lastError |-> Caught(ErrorMessage(o))]
      [] o.kind = "status" -> [kind |-> "next", lastError |-> lastError]
      [] o.kind = "hang" -> [kind |-> "hang"]
      [] OTHER ->
            IF proxy.parser = "direct"
            THEN LET content == JsString(o.text)
                 IN  IF Truthy(content) /\ LengthOver(content, MIN_CONTENT_LENGTH)
                     THEN [kind |-> "return", value |-> content]
                     ELSE [kind |-> "next", lastError |-> lastError]
            ELSE IF ~o.json.ok
                 THEN [kind |-> "next", lastError |-> Caught(JSON_FAILED)]
                 ELSE IF /\ ~o.json.isNull
                         /\ Truthy(o.json.contents)
                         /\ LengthOver(o.json.contents, MIN_CONTENT_LENGTH)
                      THEN [kind |-> "return", value |-> o.json.contents]
                      ELSE [kind |-> "next", lastError |-> lastError]

\* A direct attempt whose body is never used.
DirectAttemptIgnoresBody(o, lastError) ==
    CASE o.kind \in {"neterr", "timeout", "bodyerr"} ->
            [kind |-> "next", lastError |-> Caught(ErrorMessage(o))]
      [] OTHER -> [kind |-> "next", lastError |-> lastError]

\* The direct attempt: a success status returns the body as it is.
DirectAttempt(o, lastError) ==
    CASE o.kind \in {"neterr", "timeout", "bodyerr"} ->
            [kind |-> "next", lastError |-> Caught(ErrorMessage(o))]
      [] o.kind = "status" -> [kind |-> "next", lastError |-> lastError]
      [] o.kind = "hang" -> [kind |-> "hang"]
      [] OTHER -> [kind |-> "return", value |-> JsString(o.text)]

\* The loop over the relays, from relay i on; outs[i + 1] answers relay i.
\* requests lists the endpoints a request was sent to, in the order of the
\* requests: 1 is the site itself, i + 1 is relay i.
RECURSIVE ProxyLoop(_, _, _)
ProxyLoop(i, outs, lastError) ==
    IF i > Len(proxies)
    THEN [kind |-> "throw", message |-> AggregatedError(lastError),
          requests |-> << >>]
    ELSE LET a == ProxyAttempt(proxies[i], outs[i + 1], lastError)
         IN  CASE a.kind = "return" ->
                    [kind |-> "return", value |-> a.value, requests |-> <<i + 1>>]
               [] a.kind = "hang" -> [kind |-> "hang", requests |-> <<i + 1>>]
               [] OTHER ->
                    [ProxyLoop(i + 1, outs, a.lastError)
                        EXCEPT !.requests = <<i + 1>> \o @]

\* fetchWithCors, given the outcome of each request it may make: outs[1]
\* answers the direct request.  It returns a value, throws the aggregated
\* error, or never settles.
fetchWithCors(url, outs) ==
    LET d == DirectAttempt(outs[1], NoError)
    IN  CASE d.kind = "return" ->
                [kind |-> "return", value |-> d.value, requests |-> <<1>>]
          [] d.kind = "hang" -> [kind |-> "hang", requests |-> <<1>>]
          [] OTHER ->
                [ProxyLoop(1, outs, d.lastError) EXCEPT !.requests = <<1>> \o @]
----------------------------------------------------------------------------
(* Character classes and the pieces of the regular expressions *)

Quotes == {"'", "\""}
\* \s
WhiteSpace == {" ", "\t", "\n", "\r", "\f"}
\* What . does not match.
LineTerminators == {"\n", "\r"}
Digits == {"0", "1", "2", "3", "4", "5", "6", "7", "8", "9"}

\* The lower-case form of a letter (the i flag of the expressions).
LowerMap ==
    ("A" :> "a") @@ ("B" :> "b") @@ ("C" :> "c") @@ ("D" :> "d") @@
    ("E" :> "e") @@ ("F" :> "f") @@ ("G" :> "g") @@ ("H" :> "h") @@
    ("I" :> "i") @@ ("J" :> "j") @@ ("K" :> "k") @@ ("L" :> "l") @@
    ("M" :> "m") @@ ("N" :> "n") @@ ("O" :> "o") @@ ("P" :> "p") @@
    ("Q" :> "q") @@ ("R" :> "r") @@ ("S" :> "s") @@ ("T" :> "t") @@
    ("U" :> "u") @@ ("V" :> "v") @@ ("W" :> "w") @@ ("X" :> "x") @@
    ("Y" :> "y") @@ ("Z" :> "z")

Lower(c) == IF c \in DOMAIN LowerMap THEN LowerMap[c] ELSE c

\* The lower-case pattern p occurs in s at position i, letter case aside.
StartsWithAtCI(s, p, i) ==
    /\ i >= 1
    /\ i + Len(p) - 1 <= Len(s)
    /\ \A k \in 1..Len(p) : Lower(s[i + k - 1]) = p[k]

\* The end of the longest run of characters outside excl that starts at i
\* (i - 1 when the run is empty): a greedy [^...]* or [^...]+.
RunEndNot(s, i, excl) ==
    (CHOOSE k \in i..(Len(s) + 1) :
        /\ (k = Len(s) + 1 \/ s[k] \in excl)
        /\ \A j \in i..(k - 1) : s[j] \notin excl) - 1

\* No character of s[i..j] is in excl.
NoneIn(s, i, j, excl) == \A k \in i..j : s[k] \notin excl

Min(S) == CHOOSE x \in S : \A y \in S : x <= y
Max(S) == CHOOSE x \in S : \A y \in S : x >= y

\* Array.prototype.includes for an array of strings.
InList(list, x) == \E i \in 1..Len(list) : list[i] = x

\* A collection that takes a member again when it already holds it.
SetAddAlways(seq, x) == Append(seq, x)

\* Set.prototype.add on a Set kept as the sequence of its members in
\* insertion order.
SetAdd(seq, x) == IF InList(seq, x) THEN seq ELSE Append(seq, x)

THEMES_PATH == <<"/", "w", "p", "-", "c", "o", "n", "t", "e", "n", "t", "/", "t", "h", "e", "m", "e", "s", "/">>
PLUGINS_PATH == <<"w", "p", "-", "c", "o", "n", "t", "e", "n", "t", "/", "p", "l", "u", "g", "i", "n", "s", "/">>
STYLE_CSS == <<"/", "s", "t", "y", "l", "e", ".", "c", "s", "s">>
DOT_CSS == <<".", "c", "s", "s">>
HREF_EQ == <<"h", "r", "e", "f", "=">>
BODY_TAG == <<"<", "b", "o", "d", "y">>
CLASS_EQ == <<"c", "l", "a", "s", "s", "=">>
THEME_DASH == <<"t", "h", "e", "m", "e", "-">>

----------------------------------------------------------------------------
(* The path scanner *)

\* ['index.php', 'readme.txt']
ExcludedPlugins == << <<"i", "n", "d", "e", "x", ".", "p", "h", "p">>, <<"r", "e", "a", "d", "m", "e", ".", "t", "x", "t">> >>
\* ['plugins', 'uploads', 'cache', 'mu-plugins']
ExcludedThemes == << <<"p", "l", "u", "g", "i", "n", "s">>, <<"u", "p", "l", "o", "a", "d", "s">>, <<"c", "a", "c", "h", "e">>, <<"m", "u", "-", "p", "l", "u", "g", "i", "n", "s">> >>

\* The characters that end a path segment: [^/'"?\s]
SegmentEnd == {"/", "?"} \cup Quotes \cup WhiteSpace

\* <prefix>([^/'"?\s]+) matches at i.
SegmentAt(s, prefix, i) ==
    /\ StartsWithAtCI(s, prefix, i)
    /\ i + Len(prefix) <= Len(s)
    /\ s[i + Len(prefix)] \notin SegmentEnd

\* The loop of a global expression <prefix>([^/'"?\s]+) over s from position
\* pos on: each match, left to right and never overlapping, adds its segment
\* to the Set unless the segment is excluded; the loop ends at the first
\* match found when the Set already holds limit members.
RECURSIVE ScanSegments(_, _, _, _, _, _)
ScanSegments(s, prefix, excluded, limit, pos, found) ==
    LET matches == {i \in pos..Len(s) : SegmentAt(s, prefix, i)}
    IN  IF matches = {} \/ Len(found) >= limit
        THEN found
        ELSE LET from == Min(matches) + Len(prefix)
                 to == RunEndNot(s, from, SegmentEnd)
                 segment == SubSeq(s, from, to)
             IN  ScanSegments(s, prefix, excluded, limit, to + 1,
                              IF InList(excluded, segment)
                              THEN found ELSE SetAdd(found, segment))

\* detectPlugins
detectPlugins(htmlContent) ==
    LET plugins == ScanSegments(htmlContent, PLUGINS_PATH, ExcludedPlugins,
                                PLUGIN_SCAN_LIMIT, 1, << >>)
    IN  SubSeq(plugins, 1, IF Len(plugins) < PLUGIN_LIST_LIMIT
                           THEN Len(plugins) ELSE PLUGIN_LIST_LIMIT)

\* extractThemeFromPaths
extractThemeFromPaths(htmlContent) ==
    ScanSegments(htmlContent, THEMES_PATH, ExcludedThemes, THEME_SCAN_LIMIT, 1, << >>)

\* A presence check that lets every body pass.
quickWordPressCheckAlways(htmlContent) == TRUE

\* quickWordPressCheck
quickIndicators ==
    << <<"/", "w", "p", "-", "c", "o", "n", "t", "e", "n", "t", "/">>, <<"w", "p", "-", "i", "n", "c", "l", "u", "d", "e", "s">>, <<"w", "p", "-", "j", "s", "o", "n">>, <<"w", "p", "_", "h", "e", "a", "d">> >>

quickWordPressCheck(htmlContent) ==
    \E k \in 1..Len(quickIndicators) : Includes(htmlContent, quickIndicators[k])

----------------------------------------------------------------------------
(* The detection cascade *)

\* The name ([^/'"]+) of a theme path that starts at j, and where it ends.
NameEnd(s, j) == RunEndNot(s, j + Len(THEMES_PATH), {"/"} \cup Quotes)
NameAt(s, j) == SubSeq(s, j + Len(THEMES_PATH), NameEnd(s, j))

\* \/wp-content\/themes\/([^/'"]+)\/ matches at j.
ThemeDirAt(s, j) ==
    /\ StartsWithAtCI(s, THEMES_PATH, j)
    /\ NameEnd(s, j) >= j + Len(THEMES_PATH)
    /\ NameEnd(s, j) < Len(s)
    /\ s[NameEnd(s, j) + 1] = "/"

\* The position of the first quote at or after i, Len(s) + 1 without one.
NextQuote(s, i) == RunEndNot(s, i, Quotes) + 1

\* Method 1, the tail of the expression at j:
\* \/wp-content\/themes\/([^/'"]+)\/style\.css[^'"]*['"]
StyleCssTailAt(s, j) ==
    /\ ThemeDirAt(s, j)
    /\ StartsWithAtCI(s, STYLE_CSS, NameEnd(s, j) + 1)
    /\ NextQuote(s, NameEnd(s, j) + 1 + Len(STYLE_CSS)) <= Len(s)

\* Method 3, the tail of the expression at j:
\* \/wp-content\/themes\/([^/'"]+)\/[^'"]*\.css[^'"]*['"]
AnyCssTailAt(s, j) ==
    /\ ThemeDirAt(s, j)
    /\ LET q == NextQuote(s, NameEnd(s, j) + 2)
       IN  /\ q <= Len(s)
           /\ \E k \in (NameEnd(s, j) + 2)..(q - Len(DOT_CSS)) :
                StartsWithAtCI(s, DOT_CSS, k)

\* href=['"](.*?<tail>), where tails holds the positions at which the tail
\* of the expression matches:
\* the leftmost href=, a quote, and from there the nearest j that no line
\* terminator separates from the quote.  The match gives the text between
\* the quotes and the name.
HrefMatch(s, tails) ==
    LET hrefs == {i \in 1..Len(s) :
                    /\ StartsWithAtCI(s, HREF_EQ, i)
                    /\ i + Len(HREF_EQ) <= Len(s)
                    /\ s[i + Len(HREF_EQ)] \in Quotes}
        Reach(i) == {j \in tails :
                        /\ j >= i + Len(HREF_EQ) + 1
                        /\ NoneIn(s, i + Len(HREF_EQ) + 1, j - 1, LineTerminators)}
        starts == {i \in hrefs : Reach(i) # {}}
    IN  IF starts = {}
        THEN [found |-> FALSE]
        ELSE LET i == Min(starts)
                 j == Min(Reach(i))
                 q == NextQuote(s, NameEnd(s, j) + 2)
             IN  [found |-> TRUE,
                  url |-> SubSeq(s, i + Len(HREF_EQ) + 1, q - 1),
                  name |-> NameAt(s, j)]

\* Method 1 without the i flag on href.
themeStyleMatchCaseSensitive(s) ==
    IF Includes(s, HREF_EQ)
    THEN HrefMatch(s, {j \in 1..Len(s) : StyleCssTailAt(s, j)})
    ELSE [found |-> FALSE]

\* htmlContent.match(/href=['"](.*?\/wp-content\/themes\/([^/'"]+)\/style\.css[^'"]*)['"]/i)
themeStyleMatch(s) == HrefMatch(s, {j \in 1..Len(s) : StyleCssTailAt(s, j)})

\* htmlContent.match(/href=['"](.*?\/wp-content\/themes\/([^/'"]+)\/[^'"]*\.css[^'"]*)['"]/i)
cssMatch(s) == HrefMatch(s, {j \in 1..Len(s) : AnyCssTailAt(s, j)})

\* htmlContent.match(/<body[^>]*class=['"]*[^'"]*theme-([^'">\s]+)/i): the
\* leftmost <body; [^>]* takes the last class= it can; ['"]* takes every
\* quote; [^'"]* takes the last theme- it can; the name runs as far as it can.
BodyClassEnd == {"'", "\"", ">"} \cup WhiteSpace

\* The end of the longest run of characters of incl that starts at i.
RunEndIn(s, i, incl) ==
    (CHOOSE k \in i..(Len(s) + 1) :
        /\ (k = Len(s) + 1 \/ s[k] \notin incl)
        /\ \A j \in i..(k - 1) : s[j] \in incl) - 1

bodyClassMatch(s) ==
    LET \* where theme-([^'">\s]+) can start after the class= at c
        Themes(c) ==
            LET p == RunEndIn(s, c + Len(CLASS_EQ), Quotes) + 1
                r == RunEndNot(s, p, Quotes)
            IN  {t \in p..r :
                    /\ StartsWithAtCI(s, THEME_DASH, t)
                    /\ t + Len(THEME_DASH) <= Len(s)
                    /\ s[t + Len(THEME_DASH)] \notin BodyClassEnd}
        \* where class= can start after the <body at i
        Classes(i) ==
            {c \in (i + Len(BODY_TAG))..Len(s) :
                /\ StartsWithAtCI(s, CLASS_EQ, c)
                /\ NoneIn(s, i + Len(BODY_TAG), c - 1, {">"})
                /\ Themes(c) # {}}
        starts == {i \in 1..Len(s) :
                    StartsWithAtCI(s, BODY_TAG, i) /\ Classes(i) # {}}
    IN  IF starts = {}
        THEN [found |-> FALSE]
        ELSE LET t == Max(Themes(Max(Classes(Min(starts)))))
                 from == t + Len(THEME_DASH)
             IN  [found |-> TRUE,
                  name |-> SubSeq(s, from, RunEndNot(s, from, BodyClassEnd))]

\* Object.entries lists the keys that are array indices first, in ascending
\* numeric order, and then the other keys in insertion order.
IsArrayIndex(k) ==
    /\ Len(k) \in 1..9
    /\ \A i \in 1..Len(k) : k[i] \in Digits
    /\ (Len(k) > 1 => k[1] # "0")

DigitValue(d) == CHOOSE n \in 0..9 : <<"0", "1", "2", "3", "4", "5", "6", "7", "8", "9">>[n + 1] = d

RECURSIVE NumberOf(_)
NumberOf(k) ==
    IF k = << >> THEN 0
    ELSE 10 * NumberOf(SubSeq(k, 1, Len(k) - 1)) + DigitValue(k[Len(k)])

RECURSIVE Ascending(_)
Ascending(S) ==
    IF S = {} THEN << >>
    ELSE LET least == CHOOSE k \in S : \A o \in S : NumberOf(k) <= NumberOf(o)
         IN  <<least>> \o Ascending(S \ {least})

EntriesOrder(keys) ==
    Ascending({keys[i] : i \in {j \in 1..Len(keys) : IsArrayIndex(keys[j])}})
        \o SelectSeq(keys, LAMBDA k : ~IsArrayIndex(k))

\* themeNames.reduce(...): how often each name occurs in the list.
themeCounts(themeNames, name) ==
    Cardinality({i \in 1..Len(themeNames) : themeNames[i] = name})

\* Object.entries(themeCounts).sort(([,a], [,b]) => b - a)[0]: the sort is
\* stable, so this is the first entry that holds the highest count.
mostCommonTheme(themeNames) ==
    LET entries == EntriesOrder(themeNames)
        best == Min({i \in 1..Len(entries) :
                        \A j \in 1..Len(entries) :
                            themeCounts(themeNames, entries[j])
                                <= themeCounts(themeNames, entries[i])})
    IN  entries[best]

\* detectionMethods.join(', ')
RECURSIVE Join(_)
Join(labels) ==
    IF labels = << >> THEN ""
    ELSE IF Len(labels) = 1 THEN labels[1]
    ELSE labels[1] \o ", " \o Join(Tail(labels))

\* A test for the name that never finds it missing.
NoNameNever(themeInfo) == FALSE

\* !themeInfo.name
NoName(themeInfo) == "name" \notin DOMAIN themeInfo \/ themeInfo.name = << >>

\* A method that sets its fields whenever it finds a name, whether or not
\* an earlier method has found one.
MethodStepAlways(s, found, info, label) ==
    IF found
    THEN [info |-> info @@ s.info, labels |-> Append(s.labels, label)]
    ELSE s

\* One method of the cascade: when no name has been found so far and the
\* method finds one (found), its label is pushed and its fields (info) are
\* set on the ThemeInfo object.
MethodStep(s, found, info, label) ==
    IF NoName(s.info) /\ found
    THEN [info |-> info @@ s.info, labels |-> Append(s.labels, label)]
    ELSE s

\* The end of advancedThemeDetection: the labels are joined and the
\* ThemeInfo object is returned.
CascadeEnd(s, enrichment, cssUrl) ==
    [themeInfo |-> [detectionMethod |-> Join(s.labels)] @@ s.info,
     enrichment |-> enrichment,
     cssUrl |-> cssUrl]

\* advancedThemeDetection: the ThemeInfo it returns, and whether it has
\* started fetchThemeDetails on the stylesheet of method 1.
advancedThemeDetection(siteUrl, htmlContent) ==
    LET m1 == themeStyleMatch(htmlContent)
        themeNames == extractThemeFromPaths(htmlContent)
        name == mostCommonTheme(themeNames)
        m3 == cssMatch(htmlContent)
        m4 == bodyClassMatch(htmlContent)
    IN  CascadeEnd(
            MethodStep(
                MethodStep(
                    MethodStep(
                        MethodStep([info |-> << >>, labels |-> << >>],
                                   m1.found,
                                   [name |-> m1.name, themeUrl |-> m1.url],
                                   "Direct CSS"),
                        Len(themeNames) > 0,
                        [name |-> name,
                         themeUrl |-> siteUrl \o THEMES_PATH \o name \o STYLE_CSS],
                        "Path Analysis"),
                    m3.found,
                    [name |-> m3.name, themeUrl |-> m3.url],
                    "CSS Pattern"),
                m4.found,
                [name |-> m4.name],
                "Body Class"),
            m1.found,
            IF m1.found THEN m1.url ELSE << >>)
----------------------------------------------------------------------------
(* extractThemeInfo: the header comment of a stylesheet *)

\* [\s\S]{0,2000}
HEADER_LIMIT == 2000

\* A trim that leaves the white space where it is.
TrimNothing(s) == s

\* String.prototype.trim
Trim(s) ==
    LET kept == {i \in 1..Len(s) : s[i] \notin WhiteSpace}
    IN  IF kept = {} THEN << >> ELSE SubSeq(s, Min(kept), Max(kept))

\* A header search that takes the whole stylesheet for the header.
headerMatchWholeText(cssContent) == [found |-> TRUE, header |-> cssContent]

\* cssContent.match(/\/\*\s*([\s\S]{0,2000}?)\s*\*\//): the leftmost comment
\* whose text, the white space around it aside, is no longer than the
\* limit.  The text starts after the white space that follows the opening
\* and ends before the white space that precedes the first closing.
headerMatch(cssContent) ==
    LET COMMENT_OPEN == <<"/", "*">>
        COMMENT_CLOSE == <<"*", "/">>
        From(i) == RunEndIn(cssContent, i + Len(COMMENT_OPEN), WhiteSpace) + 1
        Closings(i) == {e \in From(i)..Len(cssContent) :
                            StartsWithAt(cssContent, COMMENT_CLOSE, e)}
        Text(i) == Trim(SubSeq(cssContent, From(i), Min(Closings(i)) - 1))
        starts == {i \in 1..Len(cssContent) :
                    /\ StartsWithAt(cssContent, COMMENT_OPEN, i)
                    /\ Closings(i) # {}
                    /\ Len(Text(i)) <= HEADER_LIMIT}
    IN  IF starts = {} THEN [found |-> FALSE]
        ELSE [found |-> TRUE, header |-> Text(Min(starts))]

\* header.match(/<label>\s*(.+)/i): the leftmost label after which, white
\* space skipped, a character stands that . matches; \s* takes as much
\* white space as leaves one; .+ runs to the end of the line.
FieldMatch(header, label) ==
    LET Values(i) ==
            {k \in (i + Len(label))..Len(header) :
                /\ header[k] \notin LineTerminators
                /\ \A j \in (i + Len(label))..(k - 1) : header[j] \in WhiteSpace}
        starts == {i \in 1..Len(header) :
                    StartsWithAtCI(header, label, i) /\ Values(i) # {}}
    IN  IF starts = {} THEN [found |-> FALSE]
        ELSE LET k == Max(Values(Min(starts)))
             IN  [found |-> TRUE,
                  value |-> SubSeq(header, k, RunEndNot(header, k, LineTerminators))]

\* The patterns of extractThemeInfo, lower case as StartsWithAtCI takes them.
patterns ==
    [name |-> <<"t", "h", "e", "m", "e", " ", "n", "a", "m", "e", ":">>, author |-> <<"a", "u", "t", "h", "o", "r", ":">>, version |-> <<"v", "e", "r", "s", "i", "o", "n", ":">>,
     description |-> <<"d", "e", "s", "c", "r", "i", "p", "t", "i", "o", "n", ":">>, uri |-> <<"t", "h", "e", "m", "e", " ", "u", "r", "i", ":">>,
     template |-> <<"t", "e", "m", "p", "l", "a", "t", "e", ":">>]

\* The loop of extractThemeInfo over the patterns: the fields found in the
\* header, in the order of the patterns; template gives childTheme, named
\* after the name found before.
headerFields(header) ==
    LET Field(label) == FieldMatch(header, label)
        Found(key) == Field(patterns[key]).found
        Value(key) == Trim(Field(patterns[key]).value)
    IN  (IF Found("name") THEN [name |-> Value("name")] ELSE << >>)
        @@ (IF Found("author") THEN [author |-> Value("author")] ELSE << >>)
        @@ (IF Found("version") THEN [version |-> Value("version")] ELSE << >>)
        @@ (IF Found("description")
            THEN [description |-> Value("description")] ELSE << >>)
        @@ (IF Found("uri") THEN [uri |-> Value("uri")] ELSE << >>)
        @@ (IF Found("template")
            THEN [childTheme |->
                    [name |-> IF Found("name") /\ Value("name") # << >>
                              THEN Value("name")
                              ELSE <<"U", "n", "k", "n", "o", "w", "n", " ", "C", "h", "i", "l", "d", " ", "T", "h", "e", "m", "e">>,
                     parent |-> Value("template")]]
            ELSE << >>)

\* extractThemeInfo: nothing without a header comment.
extractThemeInfo(cssContent) ==
    LET h == headerMatch(cssContent)
    IN  IF ~h.found THEN << >> ELSE headerFields(h.header)

\* Object.assign(target, source)
ObjectAssign(target, source) == source @@ target

\* The stylesheets that the network serves: one with the header of a child
\* theme, one without a header.
StyleSheetWithHeader ==
    <<"/", "*", "\n", "T", "h", "e", "m", "e", " ", "N", "a", "m", "e", ":", " ", "T", "w", "e", "n", "t", "y", " ", "T", "w", "e", "n", "t", "y", "-", "O", "n", "e", " ", "C", "h", "i", "l", "d", "\n", "A", "u", "t", "h", "o", "r", ":", " ", "t", "h", "e", " ", "t", "e", "a", "m", "\n", "T", "e", "m", "p", "l", "a", "t", "e", ":", " ", "t", "w", "e", "n", "t", "y", "t", "w", "e", "n", "t", "y", "o", "n", "e", "\n", "*", "/", "\n", "@", "i", "m", "p", "o", "r", "t", " ", "\"", "b", "a", "s", "e", ".", "c", "s", "s", "\"", ";">>
StyleSheetPlain == <<"@", "i", "m", "p", "o", "r", "t", " ", "\"", "b", "a", "s", "e", ".", "c", "s", "s", "\"", ";">>
StyleSheets == {StyleSheetWithHeader, StyleSheetPlain}

\* extractThemeInfo of each stylesheet.
extractedOf == [css \in StyleSheets |-> extractThemeInfo(css)]

\* A fetchThemeDetails whose failure takes the name away.
fetchThemeDetailsDropsName(f, themeInfo) ==
    IF f.kind = "return" /\ f.value.type = "string"
    THEN ObjectAssign(themeInfo, extractedOf[f.value.chars])
    ELSE [k \in DOMAIN themeInfo \ {"name"} |-> themeInfo[k]]

\* fetchThemeDetails, from the settling of its fetchWithCors call f on: the
\* ThemeInfo object after it.  A failure of the fetch, and of match on a
\* content that is no string, is caught and leaves the object as it is.
fetchThemeDetails(f, themeInfo) ==
    IF f.kind = "return" /\ f.value.type = "string"
    THEN ObjectAssign(themeInfo, extractedOf[f.value.chars])
    ELSE themeInfo

----------------------------------------------------------------------------
(* detectTheme, from the fetched content to the result *)

NOT_WORDPRESS ==
    "This doesn't appear to be a WordPress site. No WordPress indicators found."
\* The not-identified failure told in the words of the not-WordPress one.
NOT_IDENTIFIED_AsNotWordPress == NOT_WORDPRESS

NOT_IDENTIFIED ==
    "WordPress site detected but theme could not be identified. The theme may be heavily customized."
FAILED_TO_ANALYZE == "Failed to analyze website"

\* A thrown value: an Error with its message, or something else.
ErrorOf(msg) == [isError |-> TRUE, message |-> msg]

\* A catch block that lets the value go on to the caller.
detectThemeRethrow(error) ==
    [returned |-> FALSE, result |-> [success |-> FALSE, error |-> error.message]]

\* A catch block that fills both variants.
detectThemeCatchWithData(error) ==
    [returned |-> TRUE,
     result |-> [success |-> FALSE,
                 error |-> IF error.isError THEN error.message ELSE FAILED_TO_ANALYZE,
                 data |-> [isWordPress |-> FALSE]]]

\* The try block of detectTheme encloses every statement of the function: a
\* value thrown anywhere in it reaches the catch block, which returns a
\* result.  "returned" tells that the call returns, result what it returns.
detectThemeCatch(error) ==
    [returned |-> TRUE,
     result |-> [success |-> FALSE,
                 error |-> IF error.isError THEN error.message ELSE FAILED_TO_ANALYZE]]

\* detectTheme from the return of the cascade on: the not-identified result
\* or the success, whose data is a new object that holds the fields the
\* ThemeInfo object of the cascade has at that moment.
afterCascade(htmlContent, cascade) ==
    IF NoName(cascade.themeInfo)
    THEN [kind |-> "return", outcome |-> "notIdentified",
          result |-> [success |-> FALSE, error |-> NOT_IDENTIFIED],
          store |-> TRUE, ranCascade |-> TRUE, ranPlugins |-> FALSE,
          themeInfo |-> cascade.themeInfo, enrichment |-> cascade.enrichment]
    ELSE [kind |-> "return", outcome |-> "success",
          result |->
               [success |-> TRUE,
                data |-> [plugins |-> detectPlugins(htmlContent),
                          isWordPress |-> TRUE] @@ cascade.themeInfo],
          store |-> TRUE, ranCascade |-> TRUE, ranPlugins |-> TRUE,
          themeInfo |-> cascade.themeInfo, enrichment |-> cascade.enrichment]

\* The steps of detectTheme after fetchWithCors has returned htmlContent,
\* which run without a pause: the presence check, the cascade, the plugin
\* scan, the result and whether it is written to the cache ("store").  The
\* presence check throws when htmlContent is no string.  The data of a
\* success is a new object that holds the fields the ThemeInfo object of the
\* cascade has at that moment; fetchThemeDetails, which the cascade may have
\* started (enrichment), has not settled by then, since its request has not
\* been answered.
afterFetch(normalizedUrl, htmlContent) ==
    IF htmlContent.type # "string"
    THEN [kind |-> "throw", error |-> ErrorOf(NOT_A_FUNCTION),
          ranCascade |-> FALSE, ranPlugins |-> FALSE, themeInfo |-> << >>,
          enrichment |-> FALSE]
    ELSE IF ~quickWordPressCheck(htmlContent.chars)
    THEN [kind |-> "return", outcome |-> "notWordPress",
          result |-> [success |-> FALSE, error |-> NOT_WORDPRESS], store |-> TRUE,
          ranCascade |-> FALSE, ranPlugins |-> FALSE, themeInfo |-> << >>,
          enrichment |-> FALSE]
    ELSE afterCascade(htmlContent.chars,
                      advancedThemeDetection(normalizedUrl, htmlContent.chars))

----------------------------------------------------------------------------
(* The inputs of the behaviours *)

Pad(n) == [i \in 1..n |-> " "]

\* Pages the network may serve.  The padding makes a page longer than the
\* length a relay's content must exceed.
\* A stylesheet link of a theme and a plugin script.
PageDirectCss ==
    Pad(40) \o <<"<", "l", "i", "n", "k", " ", "r", "e", "l", "=", "'", "s", "t", "y", "l", "e", "s", "h", "e", "e", "t", "'", " ", "h", "r", "e", "f", "=", "\"", "h", "t", "t", "p", "s", ":", "/", "/", "a", "/", "w", "p", "-", "c", "o", "n", "t", "e", "n", "t", "/", "t", "h", "e", "m", "e", "s", "/", "t", "w", "e", "n", "t", "y", "t", "w", "e", "n", "t", "y", "o", "n", "e", "/", "s", "t", "y", "l", "e", ".", "c", "s", "s", "?", "v", "e", "r", "=", "1", ".", "0", "\"", ">", "<", "s", "c", "r", "i", "p", "t", " ", "s", "r", "c", "=", "'", "/", "w", "p", "-", "c", "o", "n", "t", "e", "n", "t", "/", "p", "l", "u", "g", "i", "n", "s", "/", "a", "k", "i", "s", "m", "e", "t", "/", "a", ".", "j", "s", "'", ">">>
\* A presence indicator and nothing that names a theme.
PageNoTheme == Pad(90) \o <<"<", "l", "i", "n", "k", " ", "h", "r", "e", "f", "=", "'", "/", "w", "p", "-", "j", "s", "o", "n", "/", "'", ">">>
\* No presence indicator, and a body class that names a theme.
PageBodyClass == Pad(80) \o <<"<", "b", "o", "d", "y", " ", "c", "l", "a", "s", "s", "=", "\"", "h", "o", "m", "e", " ", "t", "h", "e", "m", "e", "-", "a", "s", "t", "r", "a", "\"", ">">>

MainPages == {PageDirectCss, PageNoTheme, PageBodyClass}

\* The pages in which the presence check finds no indicator, and the pages
\* in which it finds one and the cascade a name.
PagesWithoutIndicator ==
    {b \in MainPages :
        \A indicator \in {<<"/", "w", "p", "-", "c", "o", "n", "t", "e", "n", "t", "/">>, <<"w", "p", "-", "i", "n", "c", "l", "u", "d", "e", "s">>, <<"w", "p", "-", "j", "s", "o", "n">>, <<"w", "p", "_", "h", "e", "a", "d">>} :
            ~Includes(b, indicator)}
IdentifiablePages ==
    {b \in MainPages \ PagesWithoutIndicator :
        "name" \in DOMAIN advancedThemeDetection(<< >>, b).themeInfo}

Endpoints == 1..(1 + Len(proxies))

\* Every request fails with the outcome o.
AllFail(o) == [i \in Endpoints |-> o]
\* The requests before endpoint k fail with o, endpoint k answers with a.
FirstAnswer(k, o, a) == [i \in Endpoints |-> IF i = k THEN a ELSE o]

\* The network's answers to one fetchWithCors call, in the behaviours of
\* detectTheme.
Scenarios ==
    {AllFail(NetErr)}
        \cup {FirstAnswer(1, NetErr, OkText(b)) : b \in MainPages}
        \cup {FirstAnswer(2, Timeout, OkText(b)) : b \in MainPages}
        \cup {FirstAnswer(3, BodyErr, OkEnvelope(<< >>, JsString(b))) : b \in MainPages}
        \cup {FirstAnswer(3, NetErr, OkEnvelope(<< >>, JsObject(MIN_CONTENT_LENGTH + 1)))}

\* Answers in which a success status arrives and the body never completes:
\* to the direct request, to a relay read with response.text() and to a
\* relay read with response.json().
HangScenarios ==
    {FirstAnswer(1, NetErr, Hang), FirstAnswer(2, NetErr, Hang),
     FirstAnswer(3, BadStatus, Hang)}

\* What the network answers to the requests for a stylesheet.
CssScenarios ==
    {AllFail(NetErr), AllFail(Timeout)}
        \cup {FirstAnswer(1, NetErr, OkText(css)) : css \in StyleSheets}

\* The URLs detectTheme is called with.  The first call names a site; a
\* later call names the same site in another spelling, or another site.
FirstSiteUrl == <<"a", ".", "i", "o">>
LaterSiteUrls == { <<"h", "t", "t", "p", "s", ":", "/", "/", "a", ".", "i", "o", "/">>, <<"b", ".", "i", "o", "/", "?", "x">> }
SiteUrls == {FirstSiteUrl} \cup LaterSiteUrls
SiteUrlsOf(c) == IF c = 1 THEN {FirstSiteUrl} ELSE LaterSiteUrls

\* The values that fetchWithCors returns for the main page, and the place
\* of a value among them.
Bodies == <<JsString(PageDirectCss), JsString(PageNoTheme), JsString(PageBodyClass),
            JsObject(MIN_CONTENT_LENGTH + 1)>>
BodyId(htmlContent) == CHOOSE i \in DOMAIN Bodies : Bodies[i] = htmlContent

\* afterFetch on the URLs and the contents of the behaviours, worked out once.
afterFetchOf ==
    [u \in {normalizeUrl(s) : s \in SiteUrls}, v \in {Bodies[i] : i \in DOMAIN Bodies}
        |-> afterFetch(u, v)]

\* The instants at which the behaviours read the clock: the start, the end
\* of the first backoff, the instant at which an entry written at the start
\* is as old as the time to live, and a later one.
TimePoints ==
    {0, BACKOFF_UNIT, CACHE_DURATION, CACHE_DURATION + BACKOFF_UNIT}

\* The cache of a process that has run before: n entries of earlier
\* detections, under the keys https://f001, https://f002, ...
DigitChars == <<"0", "1", "2", "3", "4", "5", "6", "7", "8", "9">>
FillerKey(i) ==
    HTTPS \o <<"f", DigitChars[((i \div 100) % 10) + 1],
               DigitChars[((i \div 10) % 10) + 1], DigitChars[(i % 10) + 1]>>
FillerRef(i) == 0 - i
FillerResult(i) ==
    [success |-> TRUE,
     data |-> [name |-> <<"a", "s", "t", "r", "a">>, detectionMethod |-> "Body Class",
               plugins |-> << >>, isWordPress |-> TRUE]]
FillerCache(n) ==
    [i \in 1..n |-> [key |-> FillerKey(i), ref |-> FillerRef(i), timestamp |-> 0]]
Prefill == CACHE_CEILING - 1

----------------------------------------------------------------------------
(* The state machine *)

Calls == 1..MaxCalls

\* A call: its position (pc), the variables of detectTheme, the reference
\* of the result it returned (ret), and what it has done so far:
\*   lookup       what the cache held for its key when it looked
\*   invocations  how many times it has invoked fetchWithCors
\*   settled      how the fetchWithCors call that ended its loop settled: the
\*                place in Bodies of the value it returned, or the message
\*                it threw
\*   outcome      the branch of detectTheme that ended it
\*   ranCascade, ranPlugins, stored
\*                whether it ran the cascade and the plugin scan, and wrote
\*                the cache
\*   themeInfo    the ThemeInfo object of its cascade
\*   overlaps     whether another call was in flight when it started
\*   enrich       the fetchThemeDetails task of its cascade: none, pending,
\*                settled (the header fields were assigned) or failed (the
\*                catch block ran)
IdleCall ==
    [pc |-> "idle", siteUrl |-> << >>, normalizedUrl |-> << >>, retryCount |-> 0,
     wakeAt |-> 0, ret |-> 0, lookup |-> "none", invocations |-> 0,
     settled |-> [kind |-> "none"], outcome |-> "none", ranCascade |-> FALSE,
     ranPlugins |-> FALSE, stored |-> FALSE, themeInfo |-> << >>,
     overlaps |-> FALSE, enrich |-> "none"]

\* Another call than c is between its cache miss and its return.
InFlightBeside(c) == \E d \in Calls \ {c} : calls[d].pc \in {"fetch", "backoff"}

\* A process that has just started: the cache is empty.
Init ==
    /\ cache = << >>
    /\ heap = << >>
    /\ now = 0
    /\ calls = [c \in Calls |-> IdleCall]
    /\ probe = [kind |-> "none"]

\* What the cache holds for the key of url at time t.
LookupKind(c, url, t) ==
    IF ~MapHas(c, getCacheKey(url)) THEN "absent"
    ELSE IF getFromCache(c, url, t).hit THEN "fresh" ELSE "expired"

\* A detectTheme that fetches whatever the cache holds.
StartFetchesAnyway(c, siteUrl) ==
    /\ calls[c].pc = "idle"
    /\ \A d \in 1..(c - 1) : calls[d].pc # "idle"
    /\ LET normalizedUrl == normalizeUrl(siteUrl)
       IN  calls' = [calls EXCEPT ![c] =
                  [@ EXCEPT !.siteUrl = siteUrl,
                            !.normalizedUrl = normalizedUrl,
                            !.lookup = LookupKind(cache, normalizedUrl, now),
                            !.overlaps = InFlightBeside(c),
                            !.pc = "fetch",
                            !.invocations = 1]]
    /\ UNCHANGED <<cache, heap, now, probe>>

\* detectTheme is called with siteUrl: the URL is normalised and the cache
\* looked up; a hit returns the cached result, a miss starts fetchWithCors.
Start(c, siteUrl) ==
    /\ calls[c].pc = "idle"
    /\ \A d \in 1..(c - 1) : calls[d].pc # "idle"
    /\ LET normalizedUrl == normalizeUrl(siteUrl)
           cachedResult == getFromCache(cache, normalizedUrl, now)
       IN  /\ cache' = cachedResult.cache
           /\ calls' = [calls EXCEPT ![c] =
                  [@ EXCEPT !.siteUrl = siteUrl,
                            !.normalizedUrl = normalizedUrl,
                            !.lookup = LookupKind(cache, normalizedUrl, now),
                            !.overlaps = InFlightBeside(c),
                            !.pc = IF cachedResult.hit THEN "done" ELSE "fetch",
                            !.invocations = IF cachedResult.hit THEN 0 ELSE 1,
                            !.outcome = IF cachedResult.hit THEN "hit" ELSE "none",
                            !.ret = cachedResult.ref]]
    /\ UNCHANGED <<heap, now, probe>>

\* A catch block that writes the failure it returns to the cache.
ThrowsAndStores(c, error, settled, retryCount) ==
    LET k == detectThemeCatch(error)
    IN  /\ heap' = (c :> k.result) @@ heap
        /\ calls' = [calls EXCEPT ![c] =
               [@ EXCEPT !.pc = "done",
                         !.ret = c,
                         !.retryCount = retryCount,
                         !.settled = settled,
                         !.outcome = IF settled.kind = "throw"
                                     THEN "fetchFailed" ELSE "caught"]]
        /\ cache' = setCache(cache, calls[c].normalizedUrl, c, now)

\* A value is thrown inside the try block of call c.
Throws(c, error, settled, retryCount) ==
    LET k == detectThemeCatch(error)
    IN  /\ heap' = IF k.returned THEN (c :> k.result) @@ heap ELSE heap
        /\ calls' = [calls EXCEPT ![c] =
               [@ EXCEPT !.pc = IF k.returned THEN "done" ELSE "threw",
                         !.ret = IF k.returned THEN c ELSE 0,
                         !.retryCount = retryCount,
                         !.settled = settled,
                         !.outcome = IF settled.kind = "throw"
                                     THEN "fetchFailed" ELSE "caught"]]
        /\ cache' = cache

\* fetchWithCors returns htmlContent: the rest of detectTheme runs, with
\* the outcome a.
FetchReturns(c, htmlContent, a) ==
    LET settled == [kind |-> "return", body |-> BodyId(htmlContent)]
    IN  IF a.kind = "throw"
        THEN Throws(c, a.error, settled, calls[c].retryCount)
        ELSE /\ heap' = (c :> a.result) @@ heap
             /\ cache' = IF a.store
                         THEN setCache(cache, calls[c].normalizedUrl, c, now)
                         ELSE cache
             /\ calls' = [calls EXCEPT ![c] =
                    [@ EXCEPT !.pc = "done",
                              !.settled = settled,
                              !.ret = c,
                              !.outcome = a.outcome,
                              !.ranCascade = a.ranCascade,
                              !.ranPlugins = a.ranPlugins,
                              !.stored = a.store,
                              !.themeInfo = a.themeInfo,
                              !.enrich = IF a.enrichment THEN "pending"
                                         ELSE "none"]]

\* A retry loop that gives up one attempt early.
FetchThrowsGivesUpEarly(c, message) ==
    LET retryCount == calls[c].retryCount + 1
    IN  IF retryCount >= MAX_RETRIES
        THEN Throws(c, ErrorOf(message), [kind |-> "throw", message |-> message],
                    retryCount)
        ELSE /\ calls' = [calls EXCEPT ![c] =
                    [@ EXCEPT !.pc = "backoff",
                              !.retryCount = retryCount,
                              !.wakeAt = now + BACKOFF_UNIT * retryCount]]
             /\ UNCHANGED <<heap, cache>>

\* A retry loop that waits the same time before every attempt.
FetchThrowsConstantWait(c, message) ==
    LET retryCount == calls[c].retryCount + 1
    IN  IF retryCount > MAX_RETRIES
        THEN Throws(c, ErrorOf(message), [kind |-> "throw", message |-> message],
                    retryCount)
        ELSE /\ calls' = [calls EXCEPT ![c] =
                    [@ EXCEPT !.pc = "backoff",
                              !.retryCount = retryCount,
                              !.wakeAt = now + BACKOFF_UNIT]]
             /\ UNCHANGED <<heap, cache>>

\* fetchWithCors throws: the retry loop counts the failure and either waits
\* before the next attempt or rethrows to the catch block of detectTheme.
FetchThrows(c, message) ==
    LET retryCount == calls[c].retryCount + 1
    IN  IF retryCount > MAX_RETRIES
        THEN Throws(c, ErrorOf(message), [kind |-> "throw", message |-> message],
                    retryCount)
        ELSE /\ calls' = [calls EXCEPT ![c] =
                    [@ EXCEPT !.pc = "backoff",
                              !.retryCount = retryCount,
                              !.wakeAt = now + BACKOFF_UNIT * retryCount]]
             /\ UNCHANGED <<heap, cache>>

\* One fetchWithCors call of detectTheme settles, the network having
\* answered its requests with outs, one of scenarios; or the call is left
\* waiting for a body that never completes.
FetchSettlesWith(c, scenarios) ==
    /\ calls[c].pc = "fetch"
    /\ \E outs \in scenarios :
        LET f == fetchWithCors(calls[c].normalizedUrl, outs)
        IN  CASE f.kind = "return" ->
                    FetchReturns(c, f.value,
                                 afterFetchOf[calls[c].normalizedUrl, f.value])
              [] f.kind = "throw" -> FetchThrows(c, f.message)
              [] OTHER ->
                    /\ calls' = [calls EXCEPT ![c].pc = "hung"]
                    /\ UNCHANGED <<heap, cache>>
    /\ UNCHANGED <<now, probe>>

FetchSettles(c) == FetchSettlesWith(c, Scenarios)

\* The backoff timer of the retry loop fires: fetchWithCors is invoked again.
BackoffElapsed(c) ==
    /\ calls[c].pc = "backoff"
    /\ now >= calls[c].wakeAt
    /\ calls' = [calls EXCEPT ![c] =
           [@ EXCEPT !.pc = "fetch", !.wakeAt = 0,
                     !.invocations = @ + 1]]
    /\ UNCHANGED <<cache, heap, now, probe>>

\* An enrichment that assigns the header fields to the data of the result
\* that was returned.
EnrichSettlesInPlace(c) ==
    /\ calls[c].enrich = "pending"
    /\ \E outs \in CssScenarios :
        LET f == fetchWithCors(calls[c].themeInfo.themeUrl, outs)
            r == calls[c].ret
        IN  /\ calls' = [calls EXCEPT ![c] =
                   [@ EXCEPT !.enrich = IF f.kind = "return" /\ f.value.type = "string"
                                        THEN "settled" ELSE "failed",
                             !.themeInfo = fetchThemeDetails(f, calls[c].themeInfo)]]
            /\ heap' = [heap EXCEPT ![r] =
                   [@ EXCEPT !.data = fetchThemeDetails(f, heap[r].data)]]
    /\ UNCHANGED <<cache, now, probe>>

\* The fetchWithCors call of fetchThemeDetails settles, the network having
\* answered its requests with outs: the fields of the stylesheet header are
\* assigned to the ThemeInfo object of the cascade.
EnrichSettles(c) ==
    /\ calls[c].enrich = "pending"
    /\ \E outs \in CssScenarios :
        LET f == fetchWithCors(calls[c].themeInfo.themeUrl, outs)
        IN  calls' = [calls EXCEPT ![c] =
               [@ EXCEPT !.enrich = IF f.kind = "return" /\ f.value.type = "string"
                                    THEN "settled" ELSE "failed",
                         !.themeInfo = fetchThemeDetails(f, calls[c].themeInfo)]]
    /\ UNCHANGED <<cache, heap, now, probe>>

\* clearCache
clearCache ==
    /\ cache # << >>
    /\ cache' = << >>
    /\ UNCHANGED <<heap, now, calls, probe>>

\* Time passes.
Tick ==
    /\ \E t \in TimePoints : t > now /\ now' = t
    /\ UNCHANGED <<cache, heap, calls, probe>>

Next ==
    \/ \E c \in Calls : \E u \in SiteUrlsOf(c) : Start(c, u)
    \/ \E c \in Calls : FetchSettles(c)
    \/ \E c \in Calls : BackoffElapsed(c)
    \/ \E c \in Calls : EnrichSettles(c)
    \/ clearCache
    \/ Tick

Spec == Init /\ [][Next]_vars

\* A process whose cache holds one entry less than the ceiling.
InitFull ==
    /\ cache = FillerCache(Prefill)
    /\ heap = [r \in {FillerRef(i) : i \in 1..Prefill} |-> FillerResult(0 - r)]
    /\ now = 0
    /\ calls = [c \in Calls |-> IdleCall]
    /\ probe = [kind |-> "none"]

SpecFull == InitFull /\ [][Next]_vars

\* The behaviours in which a body may never complete.  A fetchWithCors call
\* that has been invoked is answered: the runtime keeps resolving the
\* promises and firing the timers the call waits for.
NextHang ==
    \/ \E c \in Calls : \E u \in SiteUrlsOf(c) : Start(c, u)
    \/ \E c \in Calls : FetchSettlesWith(c, Scenarios \cup HangScenarios)
    \/ \E c \in Calls : BackoffElapsed(c)
    \/ \E c \in Calls : EnrichSettles(c)
    \/ clearCache
    \/ Tick

SpecHang ==
    /\ Init
    /\ [][NextHang]_vars
    /\ \A c \in Calls : WF_vars(FetchSettlesWith(c, Scenarios \cup HangScenarios))
----------------------------------------------------------------------------
(* The cache key of the spellings of a URL *)

\* The characters of the inputs: a letter and the three characters that the
\* normalisation looks for.
NormAlphabet == {"a", "/", "?", "#"}

RECURSIVE StringsOver(_, _)
StringsOver(alphabet, n) ==
    IF n = 0 THEN {<< >>}
    ELSE LET shorter == StringsOver(alphabet, n - 1)
         IN  shorter \cup {Append(s, ch) : s \in shorter, ch \in alphabet}

NormInputs == StringsOver(NormAlphabet, MaxUrlLen)

\* The spellings of the input u that differ by the scheme or by one
\* trailing slash.
Spellings(u) == {u, u \o <<"/">>, HTTPS \o u, HTTPS \o u \o <<"/">>}

InitNorm ==
    /\ cache = << >>
    /\ heap = << >>
    /\ now = 0
    /\ calls = [c \in Calls |-> IdleCall]
    /\ probe \in {[kind |-> "norm", u |-> u, step |-> "start", stored |-> << >>,
                   looked |-> << >>, hit |-> FALSE, ref |-> 0] : u \in NormInputs}

\* detectTheme, called with the spelling v, writes its result to the cache:
\* setCache(normalizedUrl, result).
NormStore(v) ==
    /\ probe.step = "start"
    /\ heap' = (1 :> [success |-> FALSE, error |-> NOT_WORDPRESS]) @@ heap
    /\ cache' = setCache(cache, normalizeUrl(v), 1, now)
    /\ probe' = [probe EXCEPT !.step = "stored", !.stored = v]
    /\ UNCHANGED <<now, calls>>

\* detectTheme, called with the spelling w, looks the cache up:
\* getFromCache(normalizedUrl).
NormLookup(w) ==
    /\ probe.step = "stored"
    /\ LET cachedResult == getFromCache(cache, normalizeUrl(w), now)
       IN  /\ cache' = cachedResult.cache
           /\ probe' = [probe EXCEPT !.step = "looked", !.looked = w,
                                     !.hit = cachedResult.hit,
                                     !.ref = cachedResult.ref]
    /\ UNCHANGED <<heap, now, calls>>

NextNorm ==
    \/ \E v \in Spellings(probe.u) : NormStore(v)
    \/ \E w \in Spellings(probe.u) : NormLookup(w)

SpecNorm == InitNorm /\ [][NextNorm]_vars

----------------------------------------------------------------------------
(* The detection of one theme in the markup around its stylesheet path *)

ThemePath == <<"/", "w", "p", "-", "c", "o", "n", "t", "e", "n", "t", "/", "t", "h", "e", "m", "e", "s", "/", "t", "w", "e", "n", "t", "y", "t", "w", "e", "n", "t", "y", "o", "n", "e", "/", "s", "t", "y", "l", "e", ".", "c", "s", "s">>
ThemeName == <<"t", "w", "e", "n", "t", "y", "t", "w", "e", "n", "t", "y", "o", "n", "e">>

\* What stands before the path, and whether it opens a quoted href value
\* on the line of the path.
Befores ==
    << [text |-> <<"<", "l", "i", "n", "k", " ", "r", "e", "l", "=", "\"", "s", "t", "y", "l", "e", "s", "h", "e", "e", "t", "\"", " ", "h", "r", "e", "f", "=", "\"">>, opens |-> TRUE],
       [text |-> <<"<", "l", "i", "n", "k", " ", "h", "r", "e", "f", "=", "'">>, opens |-> TRUE],
       [text |-> <<"<", "l", "i", "n", "k", " ", "h", "r", "e", "f", "=", "\"", "h", "t", "t", "p", "s", ":", "/", "/", "a", ".", "i", "o">>, opens |-> TRUE],
       [text |-> <<"<", "L", "I", "N", "K", " ", "H", "R", "E", "F", "=", "\"">>, opens |-> TRUE],
       [text |-> <<"<", "a", " ", "h", "r", "e", "f", "=", "\"", "x", "\"", ">", " ", "<", "i", "m", "g", " ", "s", "r", "c", "=", "\"">>, opens |-> TRUE],
       [text |-> <<"<", "a", " ", "d", "a", "t", "a", "-", "h", "r", "e", "f", "=", "'">>, opens |-> TRUE],
       [text |-> <<"<", "s", "c", "r", "i", "p", "t", " ", "s", "r", "c", "=", "\"">>, opens |-> FALSE],
       [text |-> <<"<", "l", "i", "n", "k", " ", "h", "r", "e", "f", "=">>, opens |-> FALSE],
       [text |-> <<"<", "l", "i", "n", "k", " ", "h", "r", "e", "f", " ", "=", " ", "\"">>, opens |-> FALSE],
       [text |-> <<"<", "l", "i", "n", "k", " ", "h", "r", "e", "f", "=", "\"", "\n">>, opens |-> FALSE],
       [text |-> <<"@", "i", "m", "p", "o", "r", "t", " ", "u", "r", "l", "(">>, opens |-> FALSE],
       [text |-> << >>, opens |-> FALSE] >>

\* What stands after the path, and whether it holds the closing quote.
Afters ==
    << [text |-> <<"\"", ">">>, closes |-> TRUE],
       [text |-> <<"'", ">">>, closes |-> TRUE],
       [text |-> <<"?", "v", "e", "r", "=", "5", ".", "8", "\"", " ", "m", "e", "d", "i", "a", "=", "\"", "a", "l", "l", "\"", ">">>, closes |-> TRUE],
       [text |-> <<"\n", "\"">>, closes |-> TRUE],
       [text |-> <<">">>, closes |-> FALSE],
       [text |-> <<")", ";">>, closes |-> FALSE],
       [text |-> << >>, closes |-> FALSE] >>

MarkupOf(p) == Befores[p.before].text \o ThemePath \o Afters[p.after].text

InitDetect ==
    /\ cache = << >>
    /\ heap = << >>
    /\ now = 0
    /\ calls = [c \in Calls |-> IdleCall]
    /\ probe \in {[kind |-> "detect", before |-> i, after |-> j, step |-> "fetched",
                   presence |-> FALSE, run |-> [kind |-> "none"]] :
                        i \in DOMAIN Befores, j \in DOMAIN Afters}

\* The presence check on the fetched markup.
DetectPresence ==
    /\ probe.step = "fetched"
    /\ probe' = [probe EXCEPT !.step = "checked",
                              !.presence = quickWordPressCheck(MarkupOf(probe))]
    /\ UNCHANGED <<cache, heap, now, calls>>

\* The steps of detectTheme that follow the fetch.
DetectRun ==
    /\ probe.step = "checked"
    /\ probe' = [probe EXCEPT !.step = "done",
                              !.run = afterFetch(normalizeUrl(FirstSiteUrl),
                                                 JsString(MarkupOf(probe)))]
    /\ UNCHANGED <<cache, heap, now, calls>>

NextDetect == DetectPresence \/ DetectRun

SpecDetect == InitDetect /\ [][NextDetect]_vars

----------------------------------------------------------------------------
(* The cascade, the path scanner and the metadata extractor, each applied *)
(* on its own to a text                                                    *)

RECURSIVE ConcatAll(_)
ConcatAll(texts) ==
    IF texts = << >> THEN << >> ELSE Head(texts) \o ConcatAll(Tail(texts))

\* The sequences without repetition over the members of S.
Arrangements(S) ==
    {s \in UNION {[1..n -> S] : n \in 0..Cardinality(S)} :
        \A i, j \in DOMAIN s : i # j => s[i] # s[j]}

\* Pieces of markup: a stylesheet link that method 1 matches, a theme path
\* outside a link, a link to another stylesheet of a directory that the path
\* analysis leaves out, a body class, and two paths into one more directory.
CascadePieces ==
    << <<"<", "l", "i", "n", "k", " ", "r", "e", "l", "=", "\"", "s", "t", "y", "l", "e", "s", "h", "e", "e", "t", "\"", " ", "h", "r", "e", "f", "=", "\"", "/", "w", "p", "-", "c", "o", "n", "t", "e", "n", "t", "/", "t", "h", "e", "m", "e", "s", "/", "a", "l", "p", "h", "a", "/", "s", "t", "y", "l", "e", ".", "c", "s", "s", "?", "v", "e", "r", "=", "2", "\"", ">">>,
       <<"<", "i", "m", "g", " ", "s", "r", "c", "=", "'", "/", "w", "p", "-", "c", "o", "n", "t", "e", "n", "t", "/", "t", "h", "e", "m", "e", "s", "/", "b", "e", "t", "a", "/", "l", "o", "g", "o", ".", "p", "n", "g", "'", ">">>,
       <<"<", "l", "i", "n", "k", " ", "h", "r", "e", "f", "=", "\"", "/", "w", "p", "-", "c", "o", "n", "t", "e", "n", "t", "/", "t", "h", "e", "m", "e", "s", "/", "u", "p", "l", "o", "a", "d", "s", "/", "m", "a", "i", "n", ".", "c", "s", "s", "\"", ">">>,
       <<"<", "b", "o", "d", "y", " ", "c", "l", "a", "s", "s", "=", "\"", "h", "o", "m", "e", " ", "t", "h", "e", "m", "e", "-", "d", "e", "l", "t", "a", "\"", ">">>,
       <<"<", "s", "c", "r", "i", "p", "t", " ", "s", "r", "c", "=", "\"", "/", "w", "p", "-", "c", "o", "n", "t", "e", "n", "t", "/", "t", "h", "e", "m", "e", "s", "/", "g", "a", "m", "m", "a", "/", "a", ".", "j", "s", "\"", ">", "<", "/", "s", "c", "r", "i", "p", "t", ">", "<", "i", "m", "g", " ", "s", "r", "c", "=", "\"", "/", "w", "p", "-", "c", "o", "n", "t", "e", "n", "t", "/", "t", "h", "e", "m", "e", "s", "/", "g", "a", "m", "m", "a", "/", "b", ".", "p", "n", "g", "\"", ">">> >>

\* The markup made of the pieces that order names.
CascadePage(order) == ConcatAll([i \in DOMAIN order |-> CascadePieces[order[i]]])

\* Bounds of the markup given to detectPlugins: the length of the reference
\* lists that are enumerated in full, and the largest number of distinct
\* plugin directories in a markup.
MaxPluginRefs == 4
MaxPlugins == 17

\* The name of plugin directory i; 0 is the index.php placeholder.
PluginName(i) ==
    IF i = 0 THEN <<"i", "n", "d", "e", "x", ".", "p", "h", "p">>
    ELSE <<"p", DigitChars[(i \div 10) + 1], DigitChars[(i % 10) + 1]>>

\* The markup that refers to the plugin directories refs names, in order.
PluginPage(refs) ==
    ConcatAll([i \in DOMAIN refs |->
        <<"<", "s", "c", "r", "i", "p", "t", " ", "s", "r", "c", "=", "\"", "/", "w", "p", "-", "c", "o", "n", "t", "e", "n", "t", "/", "p", "l", "u", "g", "i", "n", "s", "/">> \o PluginName(refs[i]) \o <<"/", "a", ".", "j", "s", "\"", ">", "<", "/", "s", "c", "r", "i", "p", "t", ">">>])

\* The reference lists: every list of up to MaxPluginRefs references to two
\* directories and the placeholder; n directories, each referenced once, and
\* each referenced twice in a row; one directory referenced 20 times.
PluginRefLists ==
    UNION {[1..n -> 0..2] : n \in 0..MaxPluginRefs}
        \cup {[i \in 1..n |-> i] : n \in 8..MaxPlugins}
        \cup {[i \in 1..(2 * n) |-> (i + 1) \div 2] : n \in 8..MaxPlugins}
        \cup {[i \in 1..20 |-> 1]}

\* The lines of a stylesheet header: the name, the parent of a child theme,
\* and two that say neither.
HeaderLines ==
    << <<"T", "h", "e", "m", "e", " ", "N", "a", "m", "e", ":", " ", "C", "h", "i", "l", "d", " ", "O", "n", "e">>,
       <<"T", "e", "m", "p", "l", "a", "t", "e", ":", " ", "p", "a", "r", "e", "n", "t", "-", "t", "h", "e", "m", "e">>,
       <<"A", "u", "t", "h", "o", "r", ":", " ", "t", "h", "e", " ", "t", "e", "a", "m">>,
       <<"D", "e", "s", "c", "r", "i", "p", "t", "i", "o", "n", ":", " ", "A", " ", "c", "h", "i", "l", "d", " ", "t", "e", "m", "p", "l", "a", "t", "e", " ", "f", "o", "r", " ", "s", "i", "t", "e", "s">> >>

\* What stands around and between the lines: a comment on lines of its own,
\* a comment with padded lines that end in CR LF, no comment at all, and a
\* comment that is never closed.
HeaderFrames ==
    << [open |-> <<"/", "*", "\n">>, between |-> <<"\n">>, close |-> <<"\n", "*", "/", "\n", "@", "i", "m", "p", "o", "r", "t", " ", "\"", "b", ".", "c", "s", "s", "\"", ";">>,
        comment |-> TRUE],
       [open |-> <<"/", "*", " ", " ">>, between |-> <<" ", " ", "\r", "\n", "\t">>,
        close |-> <<" ", "\r", "\n", "*", "/">>, comment |-> TRUE],
       [open |-> << >>, between |-> <<"\n">>, close |-> << >>, comment |-> FALSE],
       [open |-> <<"/", "*", "\n">>, between |-> <<"\n">>, close |-> << >>, comment |-> FALSE] >>

\* The stylesheet with the lines that order names inside frame f.
HeaderSheet(f, order) ==
    HeaderFrames[f].open
        \o ConcatAll([i \in DOMAIN order |->
                        (IF i = 1 THEN << >> ELSE HeaderFrames[f].between)
                            \o HeaderLines[order[i]]])
        \o HeaderFrames[f].close

\* One function and its argument.
InitParts ==
    /\ cache = << >>
    /\ heap = << >>
    /\ now = 0
    /\ calls = [c \in Calls |-> IdleCall]
    /\ probe \in
        {[kind |-> "cascade", order |-> o, step |-> "start"] :
            o \in Arrangements(DOMAIN CascadePieces)}
        \cup {[kind |-> "plugins", refs |-> r, step |-> "start"] : r \in PluginRefLists}
        \cup {[kind |-> "header", frame |-> f, order |-> o, step |-> "start"] :
                f \in DOMAIN HeaderFrames, o \in Arrangements(DOMAIN HeaderLines)}

\* advancedThemeDetection(siteUrl, htmlContent)
CascadeRuns ==
    /\ probe.kind = "cascade" /\ probe.step = "start"
    /\ probe' = [kind |-> "cascade", order |-> probe.order, step |-> "done",
                 out |-> advancedThemeDetection(normalizeUrl(FirstSiteUrl),
                                                CascadePage(probe.order)).themeInfo]
    /\ UNCHANGED <<cache, heap, now, calls>>

\* detectPlugins(htmlContent)
PluginsRun ==
    /\ probe.kind = "plugins" /\ probe.step = "start"
    /\ probe' = [kind |-> "plugins", refs |-> probe.refs, step |-> "done",
                 out |-> detectPlugins(PluginPage(probe.refs))]
    /\ UNCHANGED <<cache, heap, now, calls>>

\* extractThemeInfo(cssContent)
HeaderRuns ==
    /\ probe.kind = "header" /\ probe.step = "start"
    /\ probe' = [kind |-> "header", frame |-> probe.frame, order |-> probe.order,
                 step |-> "done",
                 out |-> extractThemeInfo(HeaderSheet(probe.frame, probe.order))]
    /\ UNCHANGED <<cache, heap, now, calls>>

NextParts == CascadeRuns \/ PluginsRun \/ HeaderRuns

SpecParts == InitParts /\ [][NextParts]_vars
----------------------------------------------------------------------------
(* fetchWithCors applied on its own to the answers of the network *)

\* What an endpoint may answer: a network error, a status that is no
\* success, and a success status with a body: a text of exactly the
\* minimal length and one a character longer, and a JSON envelope whose
\* contents is the one or the other.
FetchOutcomes ==
    LET AtLimit == Pad(MIN_CONTENT_LENGTH - 12) \o <<"<", "p", ">", "h", "e", "l", "l", "o", "<", "/", "p", ">">>
        OverLimit == Pad(MIN_CONTENT_LENGTH - 11) \o <<"<", "p", ">", "h", "e", "l", "l", "o", "<", "/", "p", ">">>
        EnvelopeText(s) == <<"{">> \o <<"\"", "c", "o", "n", "t", "e", "n", "t", "s", "\"", ":", "\"">> \o s \o <<"\"", "}">>
    IN  {NetErr, BadStatus, OkText(AtLimit), OkText(OverLimit),
         OkEnvelope(EnvelopeText(AtLimit), JsString(AtLimit)),
         OkEnvelope(EnvelopeText(OverLimit), JsString(OverLimit))}

InitFetch ==
    /\ cache = << >>
    /\ heap = << >>
    /\ now = 0
    /\ calls = [c \in Calls |-> IdleCall]
    /\ probe \in {[kind |-> "fetch", outs |-> outs, step |-> "start"] :
                    outs \in [Endpoints -> FetchOutcomes]}

\* fetchWithCors(url)
FetchRuns ==
    /\ probe.kind = "fetch" /\ probe.step = "start"
    /\ probe' = [kind |-> "fetch", outs |-> probe.outs, step |-> "done",
                 out |-> fetchWithCors(normalizeUrl(FirstSiteUrl), probe.outs)]
    /\ UNCHANGED <<cache, heap, now, calls>>

SpecFetch == InitFetch /\ [][FetchRuns]_vars
----------------------------------------------------------------------------
(* The cache on its own: the lookups and the writes of detections that *)
(* overlap                                                              *)

\* The sites that are detected: one whose entry is the first of a filled
\* cache, and two others.
CacheUrls == {normalizeUrl(<<"f", "0", "0", "1">>), normalizeUrl(FirstSiteUrl), normalizeUrl(<<"b", ".", "i", "o">>)}

\* The caches at the start: empty, one entry below the ceiling, and at the
\* ceiling.
CacheStarts == {<< >>, FillerCache(Prefill), FillerCache(CACHE_CEILING)}

\* The time of the last write of the key of url in cache c; -1 without one.
LastSetIn(c, url) ==
    IF MapHas(c, getCacheKey(url)) THEN c[MapIndex(c, getCacheKey(url))].timestamp
    ELSE 0 - 1

\* The record of the cache on its own:
\*   ops      the lookups and writes so far
\*   pending  per site, the detections that missed the cache and have not
\*            written their result yet
\*   lastSet  per site, the time of the last write of its key
\*   hits     per site, the lookups that were served
\*   last     the last lookup or write; for a write, the entries it evicted
\* At the start a detection of the first site may be in flight: it missed
\* the cache before an overlapping detection of that site wrote the entry.
InitCache ==
    /\ cache \in CacheStarts
    /\ heap = << >>
    /\ now = 0
    /\ calls = [c \in Calls |-> IdleCall]
    /\ \E inFlight \in 0..1 :
        probe = [kind |-> "cache", ops |-> 0,
                 pending |-> [u \in CacheUrls |->
                                IF u = normalizeUrl(<<"f", "0", "0", "1">>) /\ cache # << >>
                                THEN inFlight ELSE 0],
                 lastSet |-> [u \in CacheUrls |-> LastSetIn(cache, u)],
                 hits |-> [u \in CacheUrls |-> 0],
                 last |-> [op |-> "none"]]

\* getFromCache(normalizedUrl) at the start of a detection: a hit ends the
\* detection, a miss leaves it in flight.
CacheLookup(url) ==
    /\ probe.kind = "cache" /\ probe.ops < MaxOps
    /\ LET cachedResult == getFromCache(cache, url, now)
       IN  /\ cache' = cachedResult.cache
           /\ probe' = [probe EXCEPT
                  !.ops = @ + 1,
                  !.pending[url] = IF cachedResult.hit THEN @ ELSE @ + 1,
                  !.hits[url] = IF cachedResult.hit THEN @ + 1 ELSE @,
                  !.last = [op |-> "get", url |-> url, hit |-> cachedResult.hit,
                            ref |-> cachedResult.ref]]
    /\ UNCHANGED <<heap, now, calls>>

\* setCache(normalizedUrl, result) at the end of a detection in flight.
CacheStore(url) ==
    /\ probe.kind = "cache" /\ probe.ops < MaxOps
    /\ probe.pending[url] > 0
    /\ cache' = setCache(cache, url, probe.ops + 1, now)
    /\ probe' = [probe EXCEPT
           !.ops = @ + 1,
           !.pending[url] = @ - 1,
           !.lastSet[url] = now,
           !.last = [op |-> "set", url |-> url, hit |-> FALSE, ref |-> probe.ops + 1,
                     evicted |-> {cache[i] : i \in {j \in 1..Len(cache) :
                                                      ~MapHas(cache', cache[j].key)}}]]
    /\ UNCHANGED <<heap, now, calls>>

\* Time passes.
CacheTick ==
    /\ probe.kind = "cache"
    /\ \E t \in TimePoints : t > now /\ now' = t
    /\ UNCHANGED <<cache, heap, calls, probe>>

NextCache ==
    \/ \E url \in CacheUrls : CacheLookup(url)
    \/ \E url \in CacheUrls : CacheStore(url)
    \/ CacheTick

SpecCache == InitCache /\ [][NextCache]_vars
----------------------------------------------------------------------------
(* Properties of detectTheme *)

\* The calls that have returned, and what each returned.
Done == {c \in Calls : calls[c].pc = "done"}
ResultOf(c) == heap[calls[c].ret]

\* The results that a caller or the cache holds.
HeldResults ==
    {ResultOf(c) : c \in Done} \cup {heap[cache[i].ref] : i \in 1..Len(cache)}

\* A DetectionResult: success and one or both of data and error.
IsDetectionResult(r) ==
    /\ "success" \in DOMAIN r
    /\ r.success \in BOOLEAN
    /\ DOMAIN r \subseteq {"success", "data", "error"}

\* C1: detectTheme never throws: whatever goes wrong inside it, the call
\* returns a DetectionResult.
C1_NeverThrows ==
    \A c \in Calls :
        /\ calls[c].pc \in {"idle", "fetch", "backoff", "done"}
        /\ calls[c].pc = "done" =>
                /\ calls[c].ret \in DOMAIN heap
                /\ IsDetectionResult(ResultOf(c))

\* A call whose retries all failed and a call whose presence check threw
\* have both returned.
C1_Witness ==
    /\ \E c \in Done : calls[c].outcome = "fetchFailed"
    /\ \E c \in Done : calls[c].outcome = "caught"

\* C2: a result has exactly one of data and error: data when success is true,
\* error when it is false.
C2_OneVariant ==
    \A r \in HeldResults :
        /\ r.success => "data" \in DOMAIN r /\ "error" \notin DOMAIN r
        /\ ~r.success => "error" \in DOMAIN r /\ "data" \notin DOMAIN r

\* The cache holds a successful result and a call has returned a failure.
C2_Witness ==
    /\ \E i \in 1..Len(cache) : heap[cache[i].ref].success
    /\ \E c \in Done : ~ResultOf(c).success

\* C3: a successful result carries isWordPress = TRUE and a name that is not
\* empty; a result that is no success carries no ThemeInfo with
\* isWordPress = TRUE; a cascade that yields no name ends in a result that is
\* no success.
C3_SuccessHasName ==
    /\ \A r \in HeldResults :
        /\ r.success =>
              /\ r.data.isWordPress = TRUE
              /\ "name" \in DOMAIN r.data
              /\ Len(r.data.name) > 0
        /\ ~r.success =>
              ("data" \in DOMAIN r /\ "isWordPress" \in DOMAIN r.data
                    => r.data.isWordPress # TRUE)
    /\ \A c \in Done :
        calls[c].ranCascade /\ "name" \notin DOMAIN calls[c].themeInfo
            => ~ResultOf(c).success

\* One call has returned a success, another ran a cascade that found no name.
C3_Witness ==
    /\ \E c \in Done : ResultOf(c).success /\ calls[c].ranCascade
    /\ \E c \in Done : calls[c].ranCascade /\ "name" \notin DOMAIN calls[c].themeInfo

\* The key under which detectTheme reads and writes the cache for a call.
KeyOf(normalizedUrl) == getCacheKey(normalizedUrl)

\* C5: a lookup that finds an entry younger than the time-to-live returns
\* the result that was stored and leaves the cache as it is; a lookup that
\* finds an entry older than the time-to-live returns nothing and removes
\* the entry.
C5_CacheRoundTrip ==
    [][\A c \in Calls :
        calls[c].pc = "idle" /\ calls'[c].pc # "idle"
            /\ MapHas(cache, KeyOf(calls'[c].normalizedUrl)) =>
        LET k == KeyOf(calls'[c].normalizedUrl)
            e == cache[MapIndex(cache, k)]
        IN  /\ now - e.timestamp < CACHE_DURATION =>
                  /\ calls'[c].pc = "done"
                  /\ calls'[c].ret = e.ref
                  /\ heap'[calls'[c].ret] = heap[e.ref]
                  /\ cache' = cache
            /\ now - e.timestamp > CACHE_DURATION =>
                  /\ calls'[c].pc = "fetch"
                  /\ ~MapHas(cache', k)]_vars

\* A call was answered, some time after the entry was written, with the
\* result that another call had stored under a different spelling of the URL.
C5_Witness ==
    \E c, d \in Done :
        /\ d # c
        /\ calls[d].stored
        /\ calls[c].lookup = "fresh"
        /\ calls[c].outcome = "hit"
        /\ calls[c].ret = d
        /\ calls[c].siteUrl # calls[d].siteUrl
        /\ now > 0

\* C7: detectTheme invokes fetchWithCors at most 3 times; a body that any of
\* the invocations returns is the one the result is made from; when all
\* three fail, the result is a failure whose error is the message of the
\* third failure.
C7_BoundedRetries ==
    \A c \in Calls :
        /\ calls[c].invocations <= 3
        /\ calls[c].pc = "done" /\ calls[c].settled.kind = "return"
              /\ Bodies[calls[c].settled.body] \in {JsString(b) : b \in IdentifiablePages}
            => /\ ResultOf(c).success
               /\ calls[c].invocations = calls[c].retryCount + 1
        /\ calls[c].pc = "done" /\ calls[c].settled.kind = "throw"
            => /\ calls[c].invocations = 3
               /\ ResultOf(c) = [success |-> FALSE, error |-> calls[c].settled.message]

\* One call succeeded with its third invocation, another failed three times.
C7_Witness ==
    /\ \E c \in Done : calls[c].invocations = 3 /\ ResultOf(c).success
    /\ \E c \in Done : calls[c].invocations = 3 /\ calls[c].settled.kind = "throw"

\* C8: a body that holds none of the presence indicators gives the
\* not-WordPress failure, and neither the cascade nor the plugin scan runs,
\* whatever the cascade would have found.
C8_PresenceGate ==
    \A c \in Done :
        calls[c].settled.kind = "return"
            /\ Bodies[calls[c].settled.body] \in {JsString(b) : b \in PagesWithoutIndicator}
        => /\ ResultOf(c) = [success |-> FALSE, error |-> NOT_WORDPRESS]
           /\ ~calls[c].ranCascade
           /\ ~calls[c].ranPlugins

\* A call has returned for a body without indicator in which the cascade
\* would have found a name.
C8_Witness ==
    \E c \in Done :
        /\ calls[c].settled.kind = "return"
        /\ Bodies[calls[c].settled.body] = JsString(PageBodyClass)
        /\ calls[c].outcome = "notWordPress"

\* The three classes of failure.
FailureClasses == {"fetchFailed", "notWordPress", "notIdentified"}

\* C9: failures of different classes (fetch failed, not WordPress, theme not
\* identified) carry different error messages; a call that found WordPress
\* but no theme name never returns the not-WordPress message.
C9_DistinctMessages ==
    /\ \A c, d \in Done :
            /\ calls[c].outcome \in FailureClasses
            /\ calls[d].outcome \in FailureClasses
            /\ calls[c].outcome # calls[d].outcome
            => ResultOf(c).error # ResultOf(d).error
    /\ \A c \in Done :
            calls[c].outcome = "notIdentified" =>
                ResultOf(c).error #
                    "This doesn't appear to be a WordPress site. No WordPress indicators found."

\* Two calls have failed, one for a site that is not WordPress and one for a
\* theme that was not identified.
C9_Witness ==
    /\ \E c \in Done : calls[c].outcome = "notWordPress"
    /\ \E c \in Done : calls[c].outcome = "notIdentified"

\* C6: the cache never holds more than 100 entries.
C6_CacheBounded == Len(cache) <= 100

\* The cache is full and the oldest entry has been evicted.
C6_Witness ==
    /\ Len(cache) = 100
    /\ ~MapHas(cache, FillerKey(1))
    /\ \E c \in Done : calls[c].stored /\ MapHas(cache, KeyOf(calls[c].normalizedUrl))
\* The input u of the normalisation has no scheme.
LacksScheme(u) == ~StartsWith(u, HTTP) /\ ~StartsWith(u, HTTPS)

Slashed(u) ==
    \/ u = << >>
    \/ u = <<"/">>
    \/ Len(u) >= 2 /\ SubSeq(u, Len(u) - 1, Len(u)) = <<"/", "/">>

C10_Original ==
    probe.kind = "detect" /\ probe.step = "done"
        => /\ probe.presence
           /\ probe.run.result.success
           /\ probe.run.result.data.name = ThemeName
           /\ probe.run.result.data.detectionMethod = "Direct CSS"

\* C10: markup that holds the stylesheet path of twentytwentyone and no
\* other indicator passes the presence check and gives the name
\* twentytwentyone; the method that matches is method 1 when the path stands
\* in a quoted href value (href= and a quote before it on its line, a quote
\* after it), and method 2, the path analysis, when it does not.
C10_StylesheetPath ==
    probe.kind = "detect" /\ probe.step = "done"
        => /\ probe.presence
           /\ probe.run.result.success
           /\ probe.run.result.data.name = ThemeName
           /\ probe.run.result.data.detectionMethod =
                IF Befores[probe.before].opens /\ Afters[probe.after].closes
                THEN "Direct CSS" ELSE "Path Analysis"

\* The path has been found by method 1 in a stylesheet link and, in other
\* markup, by method 2.
C10_Witness ==
    /\ probe.kind = "detect"
    /\ probe.step = "done"
    /\ Befores[probe.before].text = <<"<", "s", "c", "r", "i", "p", "t", " ", "s", "r", "c", "=", "\"">>
    /\ Afters[probe.after].closes
    /\ probe.run.result.data.detectionMethod = "Path Analysis"
----------------------------------------------------------------------------
(* Properties of the cascade, the path scanner and the metadata extractor *)

\* The methods of the cascade that find a name in htmlContent, each taken
\* alone, and the name each finds.
MethodsThatFind(htmlContent) ==
    {k \in 1..4 :
        CASE k = 1 -> themeStyleMatch(htmlContent).found
          [] k = 2 -> Len(extractThemeFromPaths(htmlContent)) > 0
          [] k = 3 -> cssMatch(htmlContent).found
          [] k = 4 -> bodyClassMatch(htmlContent).found}
NameByMethod(k, htmlContent) ==
    CASE k = 1 -> themeStyleMatch(htmlContent).name
      [] k = 2 -> mostCommonTheme(extractThemeFromPaths(htmlContent))
      [] k = 3 -> cssMatch(htmlContent).name
      [] k = 4 -> bodyClassMatch(htmlContent).name
MethodLabels == <<"Direct CSS", "Path Analysis", "CSS Pattern", "Body Class">>

\* C11: the cascade stops at the first method that finds a name: the name
\* and the only label of detectionMethod are those of the first method, in
\* the order 1 to 4, that finds a name in the markup; the later methods
\* neither replace the name nor add a label.  When no method finds a name,
\* there is no name and no label.
C11_ShortCircuit ==
    probe.kind = "cascade" /\ probe.step = "done" =>
        LET htmlContent == CascadePage(probe.order)
            finders == MethodsThatFind(htmlContent)
        IN  IF finders = {}
            THEN /\ "name" \notin DOMAIN probe.out
                 /\ probe.out.detectionMethod = ""
            ELSE /\ probe.out.name = NameByMethod(Min(finders), htmlContent)
                 /\ probe.out.detectionMethod = MethodLabels[Min(finders)]

\* The cascade has run on a markup in which method 1 and method 4 find
\* different names.
C11_Witness ==
    /\ probe.kind = "cascade" /\ probe.step = "done"
    /\ LET htmlContent == CascadePage(probe.order)
           finders == MethodsThatFind(htmlContent)
       IN  /\ 4 \in finders
           /\ Min(finders) = 1
           /\ NameByMethod(1, htmlContent) # NameByMethod(4, htmlContent)
           /\ probe.out.name = <<"a", "l", "p", "h", "a">>

\* The plugin directories that refs names, each once, in the order in which
\* they first occur.
RECURSIVE FirstOccurrences(_)
FirstOccurrences(refs) ==
    IF refs = << >> THEN << >>
    ELSE LET earlier == FirstOccurrences(SubSeq(refs, 1, Len(refs) - 1))
             last == refs[Len(refs)]
         IN  IF \E i \in DOMAIN earlier : earlier[i] = last
             THEN earlier ELSE Append(earlier, last)

\* C12: the plugin list holds no directory twice, lists the directories in
\* the order in which the markup first refers to them, never holds
\* index.php and never more than 10 entries; a markup that refers to one
\* directory only, however often, gives a list of that one entry.
C12_PluginList ==
    probe.kind = "plugins" /\ probe.step = "done" =>
        LET plugins == probe.out
            first == FirstOccurrences(probe.refs)
            Place(name) == CHOOSE i \in DOMAIN first : PluginName(first[i]) = name
        IN  /\ \A i, j \in DOMAIN plugins : i # j => plugins[i] # plugins[j]
            /\ \A i \in DOMAIN plugins :
                    \E k \in DOMAIN first : PluginName(first[k]) = plugins[i]
            /\ \A i, j \in DOMAIN plugins :
                    i < j => Place(plugins[i]) < Place(plugins[j])
            /\ \A i \in DOMAIN plugins : plugins[i] # <<"i", "n", "d", "e", "x", ".", "p", "h", "p">>
            /\ Len(plugins) <= 10
            /\ first = <<1>> => plugins = <<PluginName(1)>>

\* detectPlugins has run on a markup that refers 20 times to one directory,
\* or on one that refers to more than 10 directories, twice to each, or on
\* one that refers to index.php between two references to a directory.
C12_Witness ==
    /\ probe.kind = "plugins" /\ probe.step = "done"
    /\ \/ Len(probe.refs) = 20 /\ Len(probe.out) = 1
       \/ /\ Len(FirstOccurrences(probe.refs)) > 10
          /\ Len(probe.refs) > Len(FirstOccurrences(probe.refs))
          /\ Len(probe.out) = 10
       \/ probe.refs = <<1, 0, 1>> /\ probe.out = <<PluginName(1)>>

\* The fields a ThemeInfo of extractThemeInfo may hold.
HeaderKeys == {"name", "author", "version", "description", "uri", "childTheme"}

\* C13: extractThemeInfo returns an object for every stylesheet text and
\* leaves the cache and the results of the process as they are; the object
\* is empty when the text holds no block comment.
C13_Total ==
    probe.kind = "header" /\ probe.step = "done" =>
        /\ DOMAIN probe.out \subseteq HeaderKeys
        /\ cache = << >> /\ heap = << >>
        /\ ~HeaderFrames[probe.frame].comment => DOMAIN probe.out = {}

\* extractThemeInfo has run on a text that holds every line of a header
\* and no closed comment around them.
C13_Witness ==
    /\ probe.kind = "header" /\ probe.step = "done"
    /\ ~HeaderFrames[probe.frame].comment
    /\ Len(probe.order) = Len(HeaderLines)
    /\ DOMAIN probe.out = {}

\* Whether the lines that order names hold line k of HeaderLines.
HasLine(order, k) == \E i \in DOMAIN order : order[i] = k

\* C14: a header comment with a Template line gives childTheme, whose
\* parent is the trimmed value of the line and whose name is the Theme Name
\* of the header, or 'Unknown Child Theme' when the header has none; a header
\* comment without a Template line gives no childTheme.
C14_ChildTheme ==
    probe.kind = "header" /\ probe.step = "done"
            /\ HeaderFrames[probe.frame].comment =>
        IF HasLine(probe.order, 2)
        THEN /\ "childTheme" \in DOMAIN probe.out
             /\ probe.out.childTheme.parent = <<"p", "a", "r", "e", "n", "t", "-", "t", "h", "e", "m", "e">>
             /\ probe.out.childTheme.name =
                    IF HasLine(probe.order, 1) THEN <<"C", "h", "i", "l", "d", " ", "O", "n", "e">>
                    ELSE <<"U", "n", "k", "n", "o", "w", "n", " ", "C", "h", "i", "l", "d", " ", "T", "h", "e", "m", "e">>
        ELSE "childTheme" \notin DOMAIN probe.out

\* extractThemeInfo has run on a padded header that holds a Template line
\* after other lines and no Theme Name.
C14_Witness ==
    /\ probe.kind = "header" /\ probe.step = "done"
    /\ probe.frame = 2
    /\ probe.order = <<3, 2, 4>>
    /\ probe.out.childTheme =
            [name |-> <<"U", "n", "k", "n", "o", "w", "n", " ", "C", "h", "i", "l", "d", " ", "T", "h", "e", "m", "e">>, parent |-> <<"p", "a", "r", "e", "n", "t", "-", "t", "h", "e", "m", "e">>]
----------------------------------------------------------------------------
(* Properties of the cache entries and of the results handed out *)

\* C15: the cache holds no result that is no success: every entry holds a
\* result whose success is TRUE.
C15_Original ==
    \A i \in 1..Len(cache) : heap[cache[i].ref].success

\* C16: a result handed to a caller is a copy: it is neither the object that
\* a cache entry holds nor the object handed to another caller.
C16_Original ==
    \A c \in Done :
        /\ \A i \in 1..Len(cache) : cache[i].ref # calls[c].ret
        /\ \A d \in Done \ {c} : calls[d].ret # calls[c].ret

\* C17: every network operation of a detection is bound to its timeout, the
\* reading of the body included: a fetchWithCors call that detectTheme has
\* invoked settles, whatever the remote side does, so that detectTheme goes
\* on to its next attempt or returns a result.
C17_Original ==
    \A c \in Calls :
        (calls[c].pc = "fetch") ~> (calls[c].pc \in {"backoff", "done"})

\* The cache entries that a step writes.
Written == {cache'[i] : i \in 1..Len(cache')} \ {cache[i] : i \in 1..Len(cache)}

\* What a call has done, at any moment: a call that found a fresh entry has
\* returned it without a fetch, a cascade, a plugin scan or a cache write;
\* a cascade has run only after a fetch that returned a text in which the
\* presence check finds an indicator; a plugin scan only after a cascade
\* that found a name; a cache write only by a call that has fetched a body
\* and has returned.
StepsInOrder ==
    \A c \in Calls :
        /\ calls[c].lookup = "fresh" =>
                /\ calls[c].pc = "done" /\ calls[c].outcome = "hit"
                /\ calls[c].invocations = 0
                /\ ~calls[c].ranCascade /\ ~calls[c].ranPlugins /\ ~calls[c].stored
                /\ calls[c].enrich = "none"
        /\ calls[c].outcome = "hit" => calls[c].lookup = "fresh"
        /\ calls[c].ranCascade =>
                /\ calls[c].lookup \in {"absent", "expired"}
                /\ calls[c].settled.kind = "return"
                /\ Bodies[calls[c].settled.body].type = "string"
                /\ Bodies[calls[c].settled.body].chars \notin PagesWithoutIndicator
        /\ calls[c].ranPlugins =>
                calls[c].ranCascade /\ "name" \in DOMAIN calls[c].themeInfo
        /\ calls[c].stored =>
                /\ calls[c].pc = "done"
                /\ calls[c].settled.kind = "return"
                /\ ResultOf(c).success => calls[c].ranPlugins

\* C18: the steps of a call come in the order lookup, fetch, presence
\* check, cascade, plugin scan, cache write, return, and a hit returns at
\* once; a step writes at most one cache entry, and it is the step in which
\* a call that was fetching returns, the entry being the result it returns
\* under the key of its URL.
C18_StepOrder ==
    /\ []StepsInOrder
    /\ [][/\ Cardinality(Written) <= 1
          /\ Written # {} =>
                \E c \in Calls :
                    /\ calls[c].pc = "fetch" /\ calls'[c].pc = "done"
                    /\ ~calls[c].stored /\ calls'[c].stored
                    /\ Written = {[key |-> getCacheKey(calls[c].normalizedUrl),
                                   ref |-> calls'[c].ret, timestamp |-> now]}
          /\ \A c \in Calls : calls[c].stored => calls'[c].stored]_vars

\* One call has run the cascade and the plugin scan and written the cache,
\* and a later call has found the entry fresh and returned it.
C18_Witness ==
    \E c, d \in Done :
        /\ calls[c].ranCascade /\ calls[c].ranPlugins /\ calls[c].stored
        /\ calls[d].outcome = "hit" /\ calls[d].ret = calls[c].ret
----------------------------------------------------------------------------
(* Properties of the fetch orchestrator *)

\* What relay i takes for the content of the answer o: the body for a
\* relay read as text, the contents field of the envelope for one read as
\* JSON; and whether the answer is one the relay accepts.
RelayContent(i, o) ==
    IF proxies[i].parser = "direct" THEN JsString(o.text)
    ELSE IF o.json.ok /\ ~o.json.isNull THEN o.json.contents
    ELSE JsUndefined
RelayAccepts(i, o) ==
    /\ o.kind = "ok"
    /\ RelayContent(i, o).type = "string"
    /\ Len(RelayContent(i, o).chars) > 100

\* The endpoints whose answer ends the call: the site when it answers with
\* a success status, a relay when it accepts the answer.
Acceptable(outs) ==
    {k \in Endpoints :
        IF k = 1 THEN outs[1].kind = "ok" ELSE RelayAccepts(k - 1, outs[k])}

\* C19: one fetchWithCors call sends its requests to the site first and
\* then to the relays in the order of the list, to each at most once; it
\* returns the body of the first endpoint whose answer is acceptable and
\* sends no request after that one; when no answer is acceptable, it has
\* sent one request to every endpoint and throws.
C19_InOrder ==
    probe.kind = "fetch" /\ probe.step = "done" =>
        LET f == probe.out
            first == Min(Acceptable(probe.outs))
        IN  /\ f.requests = [k \in 1..Len(f.requests) |-> k]
            /\ IF Acceptable(probe.outs) = {}
               THEN f.kind = "throw" /\ Len(f.requests) = Len(proxies) + 1
               ELSE /\ f.kind = "return"
                    /\ Len(f.requests) = first
                    /\ f.value = IF first = 1 THEN JsString(probe.outs[1].text)
                                 ELSE RelayContent(first - 1, probe.outs[first])

\* fetchWithCors has returned the body that the third relay brought, the
\* site and the first two relays having failed and a later relay holding
\* an acceptable answer too.
C19_Witness ==
    /\ probe.kind = "fetch" /\ probe.step = "done"
    /\ Cardinality(Acceptable(probe.outs)) > 1
    /\ Min(Acceptable(probe.outs)) = 4
    /\ probe.out.kind = "return"
    /\ probe.out.requests = <<1, 2, 3, 4>>

----------------------------------------------------------------------------
(* Properties of the aggregated error, the backoff and the cache functions *)

\* The messages that the errors of the runtime carry, and the text that
\* stands for no error at all.
ThrownMessages == {FETCH_FAILED, ABORTED, BODY_FAILED, JSON_FAILED}

\* Whether the attempt at relay i, answered with o, fails by throwing, and
\* the message it then throws.
RelayThrows(i, o) ==
    \/ o.kind \in {"neterr", "timeout", "bodyerr"}
    \/ o.kind = "ok" /\ proxies[i].parser = "json" /\ ~o.json.ok

\* C21: when every attempt fails, the error that fetchWithCors throws
\* carries the message of the attempt that failed last: of the last relay,
\* whether it failed with a network error, a status that is no success or a
\* body that is too short.  The message is then the error of the last relay
\* when that relay threw one, and otherwise neither the error of an earlier
\* attempt nor 'Unknown error'.
C21_Original ==
    probe.kind = "fetch" /\ probe.step = "done" /\ probe.out.kind = "throw" =>
        LET o == probe.outs[Len(proxies) + 1]
        IN  IF RelayThrows(Len(proxies), o)
            THEN probe.out.message = ALL_FAILED \o ErrorMessage(o)
            ELSE probe.out.message \notin
                    {ALL_FAILED \o m : m \in ThrownMessages \cup {"Unknown error"}}

C23_Original ==
    [][\A c \in Calls :
        calls[c].pc = "idle" /\ calls'[c].pc # "idle"
            /\ MapHas(cache, KeyOf(calls'[c].normalizedUrl)) =>
        LET k == KeyOf(calls'[c].normalizedUrl)
            e == cache[MapIndex(cache, k)]
        IN  IF now - e.timestamp <= 300000
            THEN /\ calls'[c].pc = "done"
                 /\ calls'[c].ret = e.ref
                 /\ cache' = cache
            ELSE /\ calls'[c].pc = "fetch"
                 /\ ~MapHas(cache', k)]_vars


\* C24: a write puts the entry of the key, with the current time, in the
\* place the key has in the Map, or at the end when the key is new; it then
\* deletes the entry inserted first when the Map holds more than 100
\* entries, and nothing otherwise; every other entry stays as it is.
C24_WriteThenEvict ==
    [][\A c \in Calls :
        calls[c].pc = "fetch" /\ calls'[c].pc = "done" /\ calls'[c].stored =>
        LET k == KeyOf(calls[c].normalizedUrl)
            e == [key |-> k, ref |-> calls'[c].ret, timestamp |-> now]
        IN  IF MapHas(cache, k)
            THEN /\ Len(cache') = Len(cache)
                 /\ \A i \in 1..Len(cache) :
                        cache'[i] = IF cache[i].key = k THEN e ELSE cache[i]
            ELSE IF Len(cache) + 1 > 100
            THEN cache' = Tail(cache) \o <<e>>
            ELSE cache' = cache \o <<e>>]_vars

\* A call has overwritten the entry that another call wrote, the Map
\* holding 100 entries and the entry inserted first still among them; or a
\* call has written the 101st entry and the entry inserted first is gone.
C24_Witness ==
    \/ /\ Len(cache) = 100 /\ cache[1].key = FillerKey(1)
       /\ \A c \in Calls : c \in Done /\ calls[c].stored
       /\ cache[100].ref = 2
    \/ /\ Len(cache) = 100 /\ cache[1].key = FillerKey(2)
       /\ \A c \in Calls : c \in Done /\ calls[c].stored
       /\ cache[100].ref = 2 /\ cache[99].ref = 1

\* C25: every key of the cache is a normalized URL: whatever the URL that
\* detectTheme is called with, here one that names a host, the key under
\* which its result is stored starts with a scheme, does not end with a
\* slash and holds neither '?' nor '#'.
C25_Original ==
    probe.kind = "norm" /\ StartsWith(probe.u, <<"a">>) =>
        \A i \in 1..Len(cache) :
            LET key == cache[i].key
            IN  /\ StartsWith(key, HTTP) \/ StartsWith(key, HTTPS)
                /\ key[Len(key)] # "/"
                /\ \A j \in 1..Len(key) : key[j] \notin {"?", "#"}

\* How often the markup refers to the theme directory of that name.
References(htmlContent, name) ==
    Cardinality({p \in 1..Len(htmlContent) :
                    StartsWithAtCI(htmlContent, THEMES_PATH \o name \o <<"/">>, p)})

\* C26: when method 1 finds nothing and the markup refers to several theme
\* directories, the name of the cascade is the directory with the highest
\* number of references: no directory that the path analysis lists is
\* referred to more often than the one that is named.
C26_Original ==
    probe.kind = "cascade" /\ probe.step = "done" =>
        LET htmlContent == CascadePage(probe.order)
            themeNames == extractThemeFromPaths(htmlContent)
        IN  ~themeStyleMatch(htmlContent).found /\ Len(themeNames) > 1 =>
                \A i \in 1..Len(themeNames) :
                    References(htmlContent, themeNames[i])
                        <= References(htmlContent, probe.out.name)

\* C27: the enrichment that method 1 starts is fire-and-forget: while it is
\* pending, detectTheme has already returned a success, and when it fails
\* (every request for the stylesheet fails or times out) the returned result
\* stays the success it was, with the name that method 1 found, and the
\* ThemeInfo object of the cascade keeps that name.
C27_FireAndForget ==
    [][\A c \in Calls :
        calls[c].enrich = "pending" =>
            /\ calls[c].pc = "done"
            /\ calls[c].outcome = "success"
            /\ heap[calls[c].ret].success
            /\ calls'[c].enrich = "failed" =>
                  /\ calls'[c].pc = "done"
                  /\ calls'[c].ret = calls[c].ret
                  /\ heap'[calls[c].ret] = heap[calls[c].ret]
                  /\ heap'[calls[c].ret].data.name = calls[c].themeInfo.name
                  /\ calls'[c].themeInfo = calls[c].themeInfo]_vars

\* A call has returned a success found by method 1 and its enrichment has
\* failed afterwards.
C27_Witness ==
    \E c \in Calls :
        /\ calls[c].pc = "done"
        /\ calls[c].enrich = "failed"
        /\ heap[calls[c].ret].success
        /\ heap[calls[c].ret].data.detectionMethod = "Direct CSS"

\* The fields that the metadata extractor reports besides the name.
HeaderFieldNames == {"author", "version", "description", "uri", "childTheme"}

\* C28: once the enrichment of a call has completed with a stylesheet, the
\* data of the result that the call returned, which is also what the cache
\* holds for it, carries every field that the metadata extractor reported,
\* with the value it reported.
C28_Original ==
    \A c \in Calls :
        calls[c].enrich = "settled" =>
            \A k \in HeaderFieldNames \cap DOMAIN calls[c].themeInfo :
                /\ k \in DOMAIN heap[calls[c].ret].data
                /\ heap[calls[c].ret].data[k] = calls[c].themeInfo[k]

\* C29: an enrichment that completes after detectTheme has returned changes
\* neither the result that was returned nor the cache: at the step in which
\* the enrichment of a call ends, every result object and every cache entry
\* stay field for field what they were.
C29_ResultUntouched ==
    [][\A c \in Calls :
        calls[c].enrich = "pending" /\ calls'[c].enrich # "pending" =>
            /\ calls[c].pc = "done"
            /\ heap' = heap
            /\ cache' = cache]_vars

\* The enrichment of a call has completed with header fields after the call
\* returned, and the result of the call is stored in the cache.
C29_Witness ==
    \E c \in Calls :
        /\ calls[c].pc = "done"
        /\ calls[c].enrich = "settled"
        /\ "author" \in DOMAIN calls[c].themeInfo
        /\ \E i \in 1..Len(cache) : cache[i].ref = calls[c].ret

\* The places of the Map that hold key k.
PlacesOf(m, k) == {i \in 1..Len(m) : m[i].key = k}

\* C30: the cache tolerates overlapping detections.  No key is held twice;
\* a call that fetches can settle whatever the other calls do; and at the
\* step in which a call completes and stores its result, the other calls
\* are left as they are, the cache holds one entry for the key of the call,
\* with the result of that call and the time of the step, and the entries
\* of the other keys are kept.  After two overlapping calls on one key
\* have completed, the entry is thus that of the call that completed last,
\* and overlapping calls on different keys each leave their entry.
C30_Overlapping ==
    /\ [](\A c \in Calls :
            /\ \A i, j \in 1..Len(cache) : cache[i].key = cache[j].key => i = j
            /\ calls[c].pc = "fetch" => ENABLED FetchSettles(c))
    /\ [][\A c \in Calls :
            calls[c].pc = "fetch" /\ calls'[c].pc = "done" /\ calls'[c].stored =>
                LET k == getCacheKey(calls[c].normalizedUrl)
                IN  /\ \A d \in Calls \ {c} : calls'[d] = calls[d]
                    /\ Cardinality(PlacesOf(cache', k)) = 1
                    /\ cache'[MapIndex(cache', k)] =
                          [key |-> k, ref |-> calls'[c].ret, timestamp |-> now]
                    /\ \A i \in 1..Len(cache) :
                          cache[i].key # k =>
                              \E j \in 1..Len(cache') : cache'[j] = cache[i]]_vars

\* Two calls on inputs with one normalized URL were in flight together, both
\* missed the cache, both have completed and stored, at different times; the
\* cache holds one entry, that of the later one.
C30_Witness ==
    \E c, d \in Calls :
        /\ c # d
        /\ calls[d].overlaps
        /\ calls[c].pc = "done" /\ calls[d].pc = "done"
        /\ calls[c].stored /\ calls[d].stored
        /\ calls[c].siteUrl # calls[d].siteUrl
        /\ getCacheKey(calls[c].normalizedUrl) = getCacheKey(calls[d].normalizedUrl)
        /\ Len(cache) = 1
        /\ cache[1].ref = calls[d].ret
        /\ cache[1].timestamp > 0
        /\ heap[calls[c].ret] # heap[calls[d].ret]
----------------------------------------------------------------------------
(* What a failed detection and a cache hit leave alone; what a write evicts; *)
(* the bodies that fetchWithCors returns                                      *)

\* C31: a detectTheme call that ends in a fetch failure leaves the cache as
\* it is.  Its lookup removes the entry of its own key when that entry has
\* expired, and nothing else; each failed invocation of fetchWithCors, each
\* backoff and the catch block change no entry; the result it returns is
\* held by no entry, so that a later call on the same URL finds what the
\* other calls left, and fetches when they left nothing.
C31_FailureLeavesCache ==
    /\ [](\A c \in Calls :
            calls[c].outcome = "fetchFailed" =>
                /\ ~calls[c].stored
                /\ \A i \in 1..Len(cache) : cache[i].ref # calls[c].ret)
    /\ [][\A c \in Calls :
            /\ calls[c].pc = "idle" /\ calls'[c].pc = "fetch" =>
                  cache' = IF calls'[c].lookup = "expired"
                           THEN MapDelete(cache, getCacheKey(calls'[c].normalizedUrl))
                           ELSE cache
            /\ /\ calls[c].pc \in {"fetch", "backoff"}
               /\ calls'[c] # calls[c]
               /\ calls'[c].pc \in {"fetch", "backoff"}
                     \/ calls'[c].outcome = "fetchFailed"
               => cache' = cache]_vars

\* A call has ended in a fetch failure after three invocations of
\* fetchWithCors, while the cache holds the entry that another call wrote.
C31_Witness ==
    \E c \in Calls :
        /\ calls[c].pc = "done"
        /\ calls[c].outcome = "fetchFailed"
        /\ calls[c].invocations = MAX_RETRIES + 1
        /\ ~heap[calls[c].ret].success
        /\ cache # << >>

\* C32: a cache hit does not refresh the entry.  The lookup that is served
\* leaves the cache as it is, the time and the place of the entry included,
\* and it is served less than 5 minutes after the last write of its key,
\* however many lookups of the key were served in between.
C32_NoRefresh ==
    [][probe'.ops = probe.ops + 1 /\ probe'.last.op = "get" /\ probe'.last.hit =>
            LET url == probe'.last.url
            IN  /\ cache' = cache
                /\ probe.lastSet[url] >= 0
                /\ cache[MapIndex(cache, getCacheKey(url))].timestamp = probe.lastSet[url]
                /\ now - probe.lastSet[url] < CACHE_DURATION]_vars

\* The lookup of a key has been served twice, the second time later than
\* the write of the key.
C32_Witness ==
    /\ probe.kind = "cache"
    /\ probe.last.op = "get" /\ probe.last.hit
    /\ probe.hits[probe.last.url] = 2
    /\ now > probe.lastSet[probe.last.url]

\* A step in which a detection writes its result to the cache on its own.
IsStore == probe'.ops = probe.ops + 1 /\ probe'.last.op = "set"

\* The entries of the Map before the step whose keys the step removes.
Lost == {i \in 1..Len(cache) : ~MapHas(cache', cache[i].key)}

\* C33 as claimed: whenever a write evicts an entry, no entry that remains
\* has a time strictly smaller than that of the evicted entry, and the
\* entry just written remains.
C33_Original ==
    [][IsStore =>
          /\ MapHas(cache', getCacheKey(probe'.last.url))
          /\ \A i \in Lost : \A j \in 1..Len(cache') :
                cache'[j].timestamp >= cache[i].timestamp]_vars

\* The times of the entries of m do not decrease along the order of the Map.
InWriteOrder(m) == \A i, j \in 1..Len(m) : i < j => m[i].timestamp <= m[j].timestamp

\* C33: whenever a write evicts, it evicts one entry, the first of the Map
\* in insertion order, and only when the Map was at the ceiling and the key
\* written was not in it; the entry just written remains, at the time of
\* the write.  The evicted entry is the oldest by age when the times of the
\* entries follow the order of the Map, which holds as long as no key was
\* written again while it was in the Map.
C33_EvictsFirstInserted ==
    [][IsStore =>
          LET cacheKey == getCacheKey(probe'.last.url)
          IN  /\ MapHas(cache', cacheKey)
              /\ cache'[MapIndex(cache', cacheKey)] =
                    [key |-> cacheKey, ref |-> probe'.last.ref, timestamp |-> now]
              /\ Len(cache') <= CACHE_CEILING
              /\ Lost # {} =>
                    /\ Lost = {1}
                    /\ Len(cache) = CACHE_CEILING
                    /\ ~MapHas(cache, cacheKey)
                    /\ InWriteOrder(cache) =>
                          \A j \in 1..Len(cache') :
                              cache'[j].timestamp >= cache[1].timestamp]_vars

\* A write has evicted the first entry of the Map, which overlapping
\* detections had written twice, while an entry with a smaller time remains.
C33_Witness ==
    /\ probe.kind = "cache"
    /\ probe.last.op = "set"
    /\ \E e \in probe.last.evicted :
          /\ e.key = FillerKey(1)
          /\ e.timestamp > 0
          /\ \E j \in 1..Len(cache) : cache[j].timestamp < e.timestamp
          /\ Len(cache) = CACHE_CEILING

=============================================================================
